---- MODULE Spec2Model ----
\* datostim: the scene state (screen table, layer table, static primitives,
\* resource registry) and the frame compositor dstim_update, modelled from
\* src/datostim.c.  The GPU batch API is a recording collaborator: every
\* request the code makes is appended to cmds, and every DvzId it returns
\* is the next unused identifier.
EXTENDS Integers, Sequences, FiniteSets, TLC

\* ---- Program constants ----
DSTIM_DEFAULT_WIDTH == 960
DSTIM_DEFAULT_HEIGHT == 400
DSTIM_DEFAULT_SQUARE_WIDTH == 100
DSTIM_DEFAULT_SQUARE_HEIGHT == 100
DSTIM_MAX_SCREENS == 8
DSTIM_MAX_LAYERS == 16
SQUARE_VERTEX_COUNT == 6
SPHERE_VERTEX_COUNT == 20706
SPHERE_INDEX_COUNT == 124236

DSTIM_DEFAULT_BACKGROUND == <<127, 127, 127, 255>>
DSTIM_DEFAULT_SQUARE_COLOR == <<0, 255, 255, 255>>
DSTIM_ALTERNATIVE_SQUARE_COLOR == <<255, 255, 0, 255>>

DSTIM_INTERPOLATION_NEAREST == 0
DSTIM_INTERPOLATION_LINEAR == 1
DSTIM_BLEND_NONE == 0
DSTIM_BLEND_DST == 1

\* Values of the collaborator's headers that the code uses by name.
DVZ_ID_NONE == 0
NULL == 0
DVZ_FORMAT_R8G8B8A8_UNORM == 37
DVZ_MASK_COLOR_R == 1
DVZ_MASK_COLOR_G == 2
DVZ_MASK_COLOR_B == 4
DVZ_MASK_COLOR_A == 8

\* sizeof(DStimPush): three mat4, two vec4, two vec2, one float.
SIZEOF_DStimPush == 244
\* sizeof(DStimVertex): vec3 + vec2; sizeof(DStimSquareVertex): vec3.
SIZEOF_DStimVertex == 20
SIZEOF_DStimSquareVertex == 12

\* ---- Bounds of the model ----
\* Number of configuration calls explored in one run (updates are free).
MaxCalls == 2
\* Highest valid screen index the calls are made with.
MaxScreenIdx == 1

\* ---- Inputs ----
\* Indices passed by the caller: the first valid ones, and the first
\* out-of-range one.
LayerIdx == {0, 1, DSTIM_MAX_LAYERS}
ScreenIdx == (0 .. MaxScreenIdx) \cup {DSTIM_MAX_SCREENS}

\* A mat4 is an opaque value with copy semantics; 0 is the calloc'ed one.
ModelMats == {7}
ViewMats == {5}
ProjMats == {3}
Angles == {45}
Offsets == {<<-60, 0>>}
Sizes == {<<150, 150>>}
MinColors == {<<0, 255, 255, 255>>}
MaxColors == {<<51, 102, 204, 255>>}
Rects == {<<320, 0, 320, 400>>}
\* Pixel rectangles of the square: the default one and the lower left
\* quarter of the window.
SquareRects == {<<860, 300, 100, 100>>, <<0, 0, 480, 200>>}
Masks == {<<TRUE, TRUE, TRUE, TRUE>>, <<FALSE, FALSE, FALSE, TRUE>>}
Interpolations == {DSTIM_INTERPOLATION_NEAREST, DSTIM_INTERPOLATION_LINEAR}
Blends == {DSTIM_BLEND_NONE, DSTIM_BLEND_DST}

\* The caller's pixel buffers, at addresses no malloc returns, with the
\* bytes each holds once filled.  Buffers 101 and 102 are filled when the
\* scene is created; 103 and 104 are those main() reads its two textures
\* into and frees.
CallerMem == [p \in {101, 102, 103, 104} |->
                IF p \in {101, 103} THEN <<10, 20, 30, 40, 99>>
                ELSE <<1, 2, 3, 4, 5, 6, 7, 8>>]
\* The textures the caller sets: a 1x1 one (its buffer is longer than
\* tex_nbytes) and a 2x1 one.
Textures ==
    { [format |-> DVZ_FORMAT_R8G8B8A8_UNORM, width |-> 1, height |-> 1,
       tex_nbytes |-> 4, rgba |-> 101],
      [format |-> DVZ_FORMAT_R8G8B8A8_UNORM, width |-> 2, height |-> 1,
       tex_nbytes |-> 8, rgba |-> 102] }

\* ---- State ----
VARIABLES
    pc,                  \* "run", "aborted" (assertion failure), "closed",
                         \* "no_scene" (dstim_init returned NULL)
    width, height,       \* DStim.width, DStim.height
    model,               \* DStim.model
    screen_count, screens,
    layer_count, layers,
    reg,                 \* the ids of the static primitives, buffers, canvas
    sphere_graphics_ids, texture_ids, sampler_ids,
    next_id,             \* the collaborator's next unused DvzId
    heap,                \* live malloc'ed blocks: address -> bytes
    caller,              \* the caller's buffers: address -> bytes now there
                         \* (none once the caller has freed the buffer)
    passed,              \* per layer, what the last texture-setter call
                         \* that was accepted received
    gpu,                 \* per layer, what the collaborator was asked for
    cmds,                \* the requests made by the most recent call
    last,                \* the most recent call: op, index, error reported
    ncalls,              \* calls made so far, update() and cleanup() apart
    twin                 \* a second scene, which receives every call the
                         \* first receives, as the record of its state;
                         \* NoTwin where the program has one scene

vars == <<pc, width, height, model, screen_count, screens, layer_count,
          layers, reg, sphere_graphics_ids, texture_ids, sampler_ids,
          next_id, heap, caller, passed, gpu, cmds, last, ncalls, twin>>

NoTwin == [pc |-> "none"]

\* The whole state as one record, which the operations map to the next.
Cur ==
    [pc |-> pc, width |-> width, height |-> height, model |-> model,
     screen_count |-> screen_count, screens |-> screens,
     layer_count |-> layer_count, layers |-> layers, reg |-> reg,
     sphere_graphics_ids |-> sphere_graphics_ids,
     texture_ids |-> texture_ids, sampler_ids |-> sampler_ids,
     next_id |-> next_id, heap |-> heap, caller |-> caller,
     passed |-> passed, gpu |-> gpu,
     cmds |-> cmds, last |-> last, ncalls |-> ncalls]

Become(S) ==
    /\ pc' = S.pc
    /\ width' = S.width
    /\ height' = S.height
    /\ model' = S.model
    /\ screen_count' = S.screen_count
    /\ screens' = S.screens
    /\ layer_count' = S.layer_count
    /\ layers' = S.layers
    /\ reg' = S.reg
    /\ sphere_graphics_ids' = S.sphere_graphics_ids
    /\ texture_ids' = S.texture_ids
    /\ sampler_ids' = S.sampler_ids
    /\ next_id' = S.next_id
    /\ heap' = S.heap
    /\ caller' = S.caller
    /\ passed' = S.passed
    /\ gpu' = S.gpu
    /\ cmds' = S.cmds
    /\ last' = S.last
    /\ ncalls' = S.ncalls

\* ---- Helpers ----
MAX(a, b) == IF a > b THEN a ELSE b

RECURSIVE Gcd(_, _)
Gcd(a, b) == IF b = 0 THEN a ELSE Gcd(b, a % b)

\* A float computed as n / d, kept exact: the reduced fraction <<n, d>>.
Frac(n, d) ==
    LET a == IF n < 0 THEN -n ELSE n
        g == Gcd(a, d)
    IN  <<n \div g, d \div g>>

Cmd(c, p) == [cmd |-> c, par |-> p]
Emit(S, c, p) == [S EXCEPT !.cmds = Append(@, Cmd(c, p))]
\* A request that creates an object returns its id: the next unused one.
NewId(S) == S.next_id
Create(S, c, p) ==
    [S EXCEPT !.cmds = Append(@, Cmd(c, <<S.next_id>> \o p)),
              !.next_id = @ + 1]

Alive(S) == S.pc = "run"
\* ASSERT(x) with x false: the process aborts.
AssertFail(S) == [S EXCEPT !.pc = "aborted"]
log_error(S) == [S EXCEPT !.last.err = TRUE]

\* Sequencing: F applied to the value of S (S is evaluated once).
Pipe(S, F(_)) == CHOOSE r \in {F(x) : x \in {S}} : TRUE
EmitAll(S, cs) == [S EXCEPT !.cmds = @ \o cs]

\* The entry of a call: what the recording collaborator and the call log
\* hold when the call starts.
Call(S, op, idx) ==
    [S EXCEPT !.cmds = <<>>,
              !.last = [op |-> op, idx |-> idx, err |-> FALSE]]

\* ---- Utils ----
\* malloc: a block at the lowest address that holds no live block.
Malloc(S) == CHOOSE p \in 1 .. (Cardinality(DOMAIN S.heap) + 1) :
                 p \notin DOMAIN S.heap
\* free(p): the block is no longer live.
Free(S, p) == [S EXCEPT !.heap = [q \in (DOMAIN @) \ {p} |-> @[q]]]

\* A variant: _cpy without the memcpy; the new block holds zeros.
_cpy_NoMemcpy(S, size, data) ==
    IF data = NULL THEN [S |-> S, p |-> NULL]
    ELSE Pipe(Malloc(S), LAMBDA p :
           [S |-> [S EXCEPT !.heap =
                     [q \in (DOMAIN @) \cup {p} |->
                        IF q = p THEN [k \in 1 .. size |-> 0]
                        ELSE @[q]]],
            p |-> p])

\* _cpy(size, data): NULL for NULL, else a new block holding the first
\* `size` bytes of data.  The result is the state and the pointer.
_cpy(S, size, data) ==
    IF data = NULL THEN [S |-> S, p |-> NULL]
    ELSE Pipe(Malloc(S), LAMBDA p :
           [S |-> [S EXCEPT !.heap =
                     [q \in (DOMAIN @) \cup {p} |->
                        IF q = p THEN SubSeq(S.caller[data], 1, size)
                        ELSE @[q]]],
            p |-> p])

\* set_shaders_spv: two shader objects read from disk, each assigned to
\* the pipeline.
set_shaders_spv(S, graphics_id, vertex_filename, fragment_filename) ==
    Pipe(Create(S, "create_spirv", <<"VERTEX", vertex_filename>>), LAMBDA S1 :
    Pipe(Emit(S1, "set_shader", <<graphics_id, NewId(S)>>), LAMBDA S2 :
    Pipe(Create(S2, "create_spirv", <<"FRAGMENT", fragment_filename>>),
         LAMBDA S3 : Emit(S3, "set_shader", <<graphics_id, NewId(S2)>>))))

\* ---- Helpers of the pipelines ----
\* The new pipeline's id is NewId of the state the helper is applied to.
create_square_pipeline(S) ==
    Pipe(Create(S, "create_graphics", <<"CUSTOM">>), LAMBDA S1 :
    Pipe(set_shaders_spv(S1, NewId(S), "shaders/square.vert.spv",
                         "shaders/square.frag.spv"), LAMBDA S2 :
         EmitAll(S2, << Cmd("set_primitive", <<NewId(S), "TRIANGLE_LIST">>),
                        Cmd("set_polygon", <<NewId(S), "FILL">>),
                        Cmd("set_vertex",
                            <<NewId(S), 0, SIZEOF_DStimSquareVertex>>),
                        Cmd("set_attr",
                            <<NewId(S), 0, 0, "R32G32B32_SFLOAT", 0>>),
                        Cmd("set_slot", <<NewId(S), 0, "UNIFORM_BUFFER">>) >>)))

create_sphere_pipeline(S) ==
    Pipe(Create(S, "create_graphics", <<"CUSTOM">>), LAMBDA S1 :
    Pipe(set_shaders_spv(S1, NewId(S), "shaders/sphere.vert.spv",
                         "shaders/sphere.frag.spv"), LAMBDA S2 :
         EmitAll(S2, << Cmd("set_primitive", <<NewId(S), "TRIANGLE_LIST">>),
                        Cmd("set_front", <<NewId(S), "CLOCKWISE">>),
                        Cmd("set_polygon", <<NewId(S), "FILL">>),
                        Cmd("set_vertex", <<NewId(S), 0, SIZEOF_DStimVertex>>),
                        Cmd("set_attr",
                            <<NewId(S), 0, 0, "R32G32B32_SFLOAT", 0>>),
                        Cmd("set_attr", <<NewId(S), 0, 1, "R32G32_SFLOAT", 12>>),
                        Cmd("set_slot",
                            <<NewId(S), 0, "COMBINED_IMAGE_SAMPLER">>),
                        Cmd("set_push", <<NewId(S), 0, SIZEOF_DStimPush>>) >>)))

FracAdd(a, b) == Frac(a[1] * b[2] + b[1] * a[2], a[2] * b[2])

\* ---- uint32_t and float ----
RECURSIVE Pow2(_)
Pow2(k) == IF k = 0 THEN 1 ELSE 2 * Pow2(k - 1)

\* A uint32_t is kept as its two 16-bit halves <<hi, lo>>, of value
\* hi * 2^16 + lo, so that values up to 2^32 - 1 can be written.
U32(n) == <<n \div 65536, n % 65536>>

\* a - b on uint32_t: the difference modulo 2^32.
U32Sub(a, b) ==
    LET lo == a[2] - b[2]
        hi == a[1] - b[1] - (IF lo < 0 THEN 1 ELSE 0)
    IN  <<(hi + 65536) % 65536, (lo + 65536) % 65536>>

\* (float)x of a uint32_t x: the nearest number with a 24-bit mantissa,
\* ties to even, as the pair <<m, e>> of value m * 2^e.
FloatExp(hi) ==
    CHOOSE e \in 0 .. 8 : hi < Pow2(8 + e) /\ (e = 0 \/ hi >= Pow2(7 + e))

ToFloat(x) ==
    LET e == FloatExp(x[1])
        q == x[1] * Pow2(16 - e) + x[2] \div Pow2(e)
        r == x[2] % Pow2(e)
    IN  IF 2 * r > Pow2(e) \/ (2 * r = Pow2(e) /\ q % 2 = 1)
        THEN <<q + 1, e>>
        ELSE <<q, e>>

\* f * 2^k, for a reduced fraction f.
RECURSIVE Scale2(_, _)
Scale2(f, k) ==
    IF k = 0 THEN f
    ELSE IF f[2] % 2 = 0 THEN Scale2(<<f[1], f[2] \div 2>>, k - 1)
    ELSE Scale2(<<2 * f[1], f[2]>>, k - 1)

\* 2.0 * (float)x / (float)d, for a uint32_t x and a d below 2^24.
TwiceOver(x, d) == Scale2(Frac(ToFloat(x)[1], d), ToFloat(x)[2] + 1)

\* upload_rectangle: the six vertices of the rectangle at offset, of the
\* given shape, in normalized device coordinates.
upload_rectangle(S, vertex_id, offset, shape) ==
    IF vertex_id = DVZ_ID_NONE THEN AssertFail(S)
    ELSE LET x == offset[1]
             y == offset[2]
             xw == FracAdd(offset[1], shape[1])
             yh == FracAdd(offset[2], shape[2])
         IN  Emit(S, "upload_dat",
                  <<vertex_id, 0,
                    SQUARE_VERTEX_COUNT * SIZEOF_DStimSquareVertex,
                    << <<x, y>>, <<xw, y>>, <<x, yh>>,
                       <<xw, yh>>, <<x, yh>>, <<xw, y>> >> >>)

\* rectangle_color: from uint8 to float in [0.0, 1.0].
rectangle_color(S, params_id, red, green, blue, alpha) ==
    IF params_id = DVZ_ID_NONE THEN AssertFail(S)
    ELSE Emit(S, "upload_dat",
              <<params_id, 0, 16,
                <<Frac(red, 255), Frac(green, 255), Frac(blue, 255),
                  Frac(alpha, 255)>> >>)

create_background(S) ==
    Pipe(create_square_pipeline(S), LAMBDA S1 :
    Pipe(Create(S1, "create_dat",
                <<"VERTEX", SQUARE_VERTEX_COUNT * SIZEOF_DStimSquareVertex>>),
         LAMBDA S2 :
    Pipe(Emit(S2, "bind_vertex", <<NewId(S), 0, NewId(S1), 0>>), LAMBDA S3 :
    Pipe(Create(S3, "create_dat", <<"UNIFORM", 16>>), LAMBDA S4 :
         [Emit(S4, "bind_dat", <<NewId(S), 0, NewId(S3), 0>>) EXCEPT
            !.reg.background_graphics_id = NewId(S),
            !.reg.background_vertex_id = NewId(S1),
            !.reg.background_params_id = NewId(S3)]))))

create_square(S) ==
    Pipe(create_square_pipeline(S), LAMBDA S1 :
    Pipe(Create(S1, "create_dat",
                <<"VERTEX", SQUARE_VERTEX_COUNT * SIZEOF_DStimSquareVertex>>),
         LAMBDA S2 :
    Pipe(Emit(S2, "bind_vertex", <<NewId(S), 0, NewId(S1), 0>>), LAMBDA S3 :
    Pipe(Create(S3, "create_dat", <<"UNIFORM", 16>>), LAMBDA S4 :
         [Emit(S4, "bind_dat", <<NewId(S), 0, NewId(S3), 0>>) EXCEPT
            !.reg.square_graphics_id = NewId(S),
            !.reg.square_vertex_id = NewId(S1),
            !.reg.square_params_id = NewId(S3)]))))

create_sphere_vertex_buffer(S, sphere_vertex_count) ==
    [Create(S, "create_dat",
            <<"VERTEX", sphere_vertex_count * SIZEOF_DStimVertex>>)
       EXCEPT !.reg.sphere_vertex_id = NewId(S)]

create_sphere_index_buffer(S, sphere_index_count) ==
    [Create(S, "create_dat", <<"INDEX", sphere_index_count * 4>>)
       EXCEPT !.reg.sphere_index_id = NewId(S)]

\* ---- Static primitives ----
dstim_background(S, red, green, blue, alpha) ==
    rectangle_color(S, S.reg.background_params_id, red, green, blue, alpha)

dstim_square_color(S, red, green, blue, alpha) ==
    rectangle_color(S, S.reg.square_params_id, red, green, blue, alpha)

\* A variant: dstim_square_pos without the shift of the origin by -1.
dstim_square_pos_NoShift(S, x, y, w, h) ==
    LET xf == TwiceOver(x, S.width)
        yf == TwiceOver(y, S.height)
        wf == TwiceOver(w, S.width)
        hf == TwiceOver(h, S.height)
    IN  upload_rectangle(S, S.reg.square_vertex_id, <<xf, yf>>, <<wf, hf>>)

\* dstim_square_pos: from pixels to normalized device coordinates.
dstim_square_pos(S, x, y, w, h) ==
    LET xf == FracAdd(Frac(-1, 1), TwiceOver(x, S.width))
        yf == FracAdd(Frac(-1, 1), TwiceOver(y, S.height))
        wf == TwiceOver(w, S.width)
        hf == TwiceOver(h, S.height)
    IN  upload_rectangle(S, S.reg.square_vertex_id, <<xf, yf>>, <<wf, hf>>)

\* dstim_vertices / dstim_indices: the mesh data, an opaque blob.
dstim_vertices(S, vertex_count, vertices) ==
    IF vertex_count = 0 \/ S.reg.sphere_vertex_id = DVZ_ID_NONE
    THEN AssertFail(S)
    ELSE Emit(S, "upload_dat",
              <<S.reg.sphere_vertex_id, 0, vertex_count * SIZEOF_DStimVertex,
                vertices>>)

dstim_indices(S, index_count, indices) ==
    IF index_count = 0 \/ S.reg.sphere_index_id = DVZ_ID_NONE
    THEN AssertFail(S)
    ELSE Emit(S, "upload_dat",
              <<S.reg.sphere_index_id, 0, index_count * 4, indices>>)

dstim_model(S, m) == [S EXCEPT !.model = m]

\* ---- Construction ----
\* A calloc'ed DLayer / DScreen.
\* A variant: zeroed memory in which a layer is visible.
ZeroLayer_Visible ==
    [view |-> 0, tex_offset |-> <<0, 0>>, tex_size |-> <<0, 0>>,
     mask |-> 0, min_color |-> <<0, 0, 0, 0>>, max_color |-> <<0, 0, 0, 0>>,
     tex_angle |-> 0, tex_width |-> 0, tex_height |-> 0, tex_nbytes |-> 0,
     rgba |-> NULL, format |-> 0, interpolation |-> 0, blend |-> 0,
     is_periodic |-> FALSE, is_visible |-> TRUE, is_blank |-> FALSE,
     is_dirty |-> FALSE, is_texture_dirty |-> FALSE]

ZeroLayer ==
    [view |-> 0, tex_offset |-> <<0, 0>>, tex_size |-> <<0, 0>>,
     mask |-> 0, min_color |-> <<0, 0, 0, 0>>, max_color |-> <<0, 0, 0, 0>>,
     tex_angle |-> 0, tex_width |-> 0, tex_height |-> 0, tex_nbytes |-> 0,
     rgba |-> NULL, format |-> 0, interpolation |-> 0, blend |-> 0,
     is_periodic |-> FALSE, is_visible |-> FALSE, is_blank |-> FALSE,
     is_dirty |-> FALSE, is_texture_dirty |-> FALSE]

ZeroScreen == [offset |-> <<0, 0>>, size |-> <<0, 0>>, projection |-> 0]

\* The collaborator's side of a layer before any request: the number of
\* pipelines, textures and samplers created for it, and the fixed state
\* and texture allocation last requested.
NoGpuLayer ==
    [graphics |-> 0, tex |-> 0, sampler |-> 0,
     format |-> 0, width |-> 0, height |-> 0,
     filter |-> "", address_mode |-> "", blend |-> "", mask |-> 0]

\* The arguments of a texture-setter call, the bytes as they are during
\* the call; before the first call, nothing.
NothingPassed ==
    [format |-> 0, width |-> 0, height |-> 0, tex_nbytes |-> 0,
     rgba |-> NULL, bytes |-> << >>]

Passed(S, format, w, h, tex_nbytes, rgba) ==
    [format |-> format, width |-> w, height |-> h, tex_nbytes |-> tex_nbytes,
     rgba |-> rgba, bytes |-> SubSeq(S.caller[rgba], 1, tex_nbytes)]

\* calloc(1, sizeof(DStim)), beside a collaborator that has served no
\* request yet.
ZeroStim ==
    [pc |-> "run", width |-> 0, height |-> 0, model |-> 0,
     screen_count |-> 0,
     screens |-> [s \in 0 .. DSTIM_MAX_SCREENS - 1 |-> ZeroScreen],
     layer_count |-> 0,
     layers |-> [l \in 0 .. DSTIM_MAX_LAYERS - 1 |-> ZeroLayer],
     reg |-> [background_graphics_id |-> DVZ_ID_NONE,
              background_vertex_id |-> DVZ_ID_NONE,
              background_params_id |-> DVZ_ID_NONE,
              square_graphics_id |-> DVZ_ID_NONE,
              square_vertex_id |-> DVZ_ID_NONE,
              square_params_id |-> DVZ_ID_NONE,
              sphere_vertex_id |-> DVZ_ID_NONE,
              sphere_index_id |-> DVZ_ID_NONE,
              sphere_index_count |-> 0,
              canvas_id |-> DVZ_ID_NONE],
     sphere_graphics_ids |-> [l \in 0 .. DSTIM_MAX_LAYERS - 1 |-> DVZ_ID_NONE],
     texture_ids |-> [l \in 0 .. DSTIM_MAX_LAYERS - 1 |-> DVZ_ID_NONE],
     sampler_ids |-> [l \in 0 .. DSTIM_MAX_LAYERS - 1 |-> DVZ_ID_NONE],
     next_id |-> 1,
     heap |-> << >>,
     caller |-> [p \in DOMAIN CallerMem |->
                   IF p \in {101, 102} THEN CallerMem[p] ELSE << >>],
     passed |-> [l \in 0 .. DSTIM_MAX_LAYERS - 1 |-> NothingPassed],
     gpu |-> [l \in 0 .. DSTIM_MAX_LAYERS - 1 |-> NoGpuLayer],
     cmds |-> << >>,
     last |-> [op |-> "init", idx |-> 0, err |-> FALSE],
     ncalls |-> 0]

\* A variant: the failure of dstim_init without the error report.
NoScene_Silent(w, h) ==
    [ZeroStim EXCEPT !.pc = "no_scene", !.width = w, !.height = h]

\* log_error(...); return NULL: nothing was allocated and no request was
\* made.  There is no scene; width and height keep the arguments of the
\* call.
NoScene(w, h) ==
    log_error([ZeroStim EXCEPT !.pc = "no_scene", !.width = w, !.height = h])

dstim_init(w, h) ==
    IF w = 0 THEN NoScene(w, h)
    ELSE IF h = 0 THEN NoScene(w, h)
    ELSE
    Pipe([ZeroStim EXCEPT
            !.width = w, !.height = h,
            !.layers = [l \in 0 .. DSTIM_MAX_LAYERS - 1 |->
                          [ZeroLayer EXCEPT !.is_blank = TRUE]]], LAMBDA Z :
    Pipe(EmitAll(Z, << Cmd("app", <<0>>), Cmd("app_batch", << >>) >>),
         LAMBDA S0 :
    Pipe(create_background(S0), LAMBDA S1 :
    Pipe(upload_rectangle(S1, S1.reg.background_vertex_id,
                          << <<-1, 1>>, <<-1, 1>> >>,
                          << <<2, 1>>, <<2, 1>> >>), LAMBDA S2 :
    Pipe(dstim_background(S2, DSTIM_DEFAULT_BACKGROUND[1],
                          DSTIM_DEFAULT_BACKGROUND[2],
                          DSTIM_DEFAULT_BACKGROUND[3],
                          DSTIM_DEFAULT_BACKGROUND[4]), LAMBDA S3 :
    Pipe(create_square(S3), LAMBDA S4 :
    Pipe(dstim_square_pos(S4,
                          U32Sub(U32(w), U32(DSTIM_DEFAULT_SQUARE_WIDTH)),
                          U32Sub(U32(h), U32(DSTIM_DEFAULT_SQUARE_HEIGHT)),
                          U32(DSTIM_DEFAULT_SQUARE_WIDTH),
                          U32(DSTIM_DEFAULT_SQUARE_HEIGHT)), LAMBDA S5 :
    Pipe(dstim_square_color(S5, DSTIM_DEFAULT_SQUARE_COLOR[1],
                            DSTIM_DEFAULT_SQUARE_COLOR[2],
                            DSTIM_DEFAULT_SQUARE_COLOR[3],
                            DSTIM_DEFAULT_SQUARE_COLOR[4]), LAMBDA S6 :
    Pipe(create_sphere_vertex_buffer(S6, SPHERE_VERTEX_COUNT), LAMBDA S7 :
    Pipe(dstim_vertices(S7, SPHERE_VERTEX_COUNT, <<"data/vertex">>),
         LAMBDA S8 :
    Pipe([S8 EXCEPT !.reg.sphere_index_count = SPHERE_INDEX_COUNT],
         LAMBDA S9 :
    Pipe(create_sphere_index_buffer(S9, S9.reg.sphere_index_count),
         LAMBDA S10 :
    Pipe(dstim_indices(S10, S10.reg.sphere_index_count, <<"data/index">>),
         LAMBDA S11 :
         [Create(S11, "create_canvas", <<w, h>>) EXCEPT
            !.reg.canvas_id = NewId(S11)])))))))))))))

\* ---- Screen and layer setters ----
\* A variant: the range test of GET_SCREEN off by one.
ScreenOutOfRange_OffByOne(screen_idx) == screen_idx > DSTIM_MAX_SCREENS

\* GET_SCREEN / GET_LAYER: the range test, which logs an error and returns,
\* and after it the count, raised to cover the index.
ScreenOutOfRange(screen_idx) == screen_idx >= DSTIM_MAX_SCREENS

LayerOutOfRange(layer_idx) == layer_idx >= DSTIM_MAX_LAYERS

GET_SCREEN(S, screen_idx) ==
    [S EXCEPT !.screen_count = MAX(@, screen_idx + 1)]

\* A variant: GET_LAYER leaving layer_count as it is.
GET_LAYER_KeepCount(S, layer_idx) == S

GET_LAYER(S, layer_idx) ==
    [S EXCEPT !.layer_count = MAX(@, layer_idx + 1)]

\* A variant: TOUCH_LAYER expanding to nothing.
TOUCH_LAYER_Nothing(S, layer_idx) == S

TOUCH_LAYER(S, layer_idx) ==
    [S EXCEPT !.layers[layer_idx].is_dirty = TRUE]

TOUCH_LAYER_TEXTURE(S, layer_idx) ==
    [S EXCEPT !.layers[layer_idx].is_texture_dirty = TRUE]

\* A variant: dstim_screen assigning the whole screen, its projection
\* zeroed.
dstim_screen_WholeScreen(S, screen_idx, x, y, w, h) ==
    IF ScreenOutOfRange(screen_idx) THEN log_error(S)
    ELSE [GET_SCREEN(S, screen_idx) EXCEPT
            !.screens[screen_idx] =
                [ZeroScreen EXCEPT !.offset = <<x, y>>, !.size = <<w, h>>]]

dstim_screen(S, screen_idx, x, y, w, h) ==
    IF ScreenOutOfRange(screen_idx) THEN log_error(S)
    ELSE [GET_SCREEN(S, screen_idx) EXCEPT
            !.screens[screen_idx].offset = <<x, y>>,
            !.screens[screen_idx].size = <<w, h>>]

dstim_projection(S, screen_idx, projection) ==
    IF ScreenOutOfRange(screen_idx) THEN log_error(S)
    ELSE [GET_SCREEN(S, screen_idx) EXCEPT
            !.screens[screen_idx].projection = projection]

\* A variant: dstim_layer_texture without the FREE of the previous copy.
dstim_layer_texture_NoFree(S, layer_idx, format, w, h, tex_nbytes, rgba) ==
    IF ~(tex_nbytes > 0 /\ w > 0 /\ h > 0 /\ rgba # NULL) THEN AssertFail(S)
    ELSE IF LayerOutOfRange(layer_idx) THEN log_error(S)
    ELSE Pipe(TOUCH_LAYER_TEXTURE(GET_LAYER(S, layer_idx), layer_idx),
              LAMBDA S1 :
         Pipe([S1 EXCEPT !.layers[layer_idx].format = format,
                         !.layers[layer_idx].tex_width = w,
                         !.layers[layer_idx].tex_height = h,
                         !.layers[layer_idx].tex_nbytes = tex_nbytes],
              LAMBDA S2 :
         Pipe(_cpy(S2, tex_nbytes, rgba), LAMBDA cp :
              [cp.S EXCEPT !.layers[layer_idx].rgba = cp.p,
                           !.passed[layer_idx] =
                              Passed(S, format, w, h, tex_nbytes, rgba)])))

dstim_layer_texture(S, layer_idx, format, w, h, tex_nbytes, rgba) ==
    IF ~(tex_nbytes > 0 /\ w > 0 /\ h > 0 /\ rgba # NULL) THEN AssertFail(S)
    ELSE IF LayerOutOfRange(layer_idx) THEN log_error(S)
    ELSE Pipe(TOUCH_LAYER_TEXTURE(GET_LAYER(S, layer_idx), layer_idx),
              LAMBDA S1 :
         Pipe([S1 EXCEPT !.layers[layer_idx].format = format,
                         !.layers[layer_idx].tex_width = w,
                         !.layers[layer_idx].tex_height = h,
                         !.layers[layer_idx].tex_nbytes = tex_nbytes],
              LAMBDA S2 :
         Pipe(IF S2.layers[layer_idx].rgba # NULL
              THEN Free(S2, S2.layers[layer_idx].rgba) ELSE S2, LAMBDA S3 :
         Pipe(_cpy(S3, tex_nbytes, rgba), LAMBDA cp :
              [cp.S EXCEPT !.layers[layer_idx].rgba = cp.p,
                           !.passed[layer_idx] =
                              Passed(S, format, w, h, tex_nbytes, rgba)]))))

dstim_layer_interpolation(S, layer_idx, interpolation) ==
    IF LayerOutOfRange(layer_idx) THEN log_error(S)
    ELSE [TOUCH_LAYER(GET_LAYER(S, layer_idx), layer_idx) EXCEPT
            !.layers[layer_idx].interpolation = interpolation]

dstim_layer_periodic(S, layer_idx, is_periodic) ==
    IF LayerOutOfRange(layer_idx) THEN log_error(S)
    ELSE [TOUCH_LAYER(GET_LAYER(S, layer_idx), layer_idx) EXCEPT
            !.layers[layer_idx].is_periodic = is_periodic]

dstim_layer_blend(S, layer_idx, blend) ==
    IF LayerOutOfRange(layer_idx) THEN log_error(S)
    ELSE [TOUCH_LAYER(GET_LAYER(S, layer_idx), layer_idx) EXCEPT
            !.layers[layer_idx].blend = blend]

dstim_layer_mask(S, layer_idx, red, green, blue, alpha) ==
    IF LayerOutOfRange(layer_idx) THEN log_error(S)
    ELSE [TOUCH_LAYER(GET_LAYER(S, layer_idx), layer_idx) EXCEPT
            !.layers[layer_idx].mask =
                (IF red THEN DVZ_MASK_COLOR_R ELSE 0)
              + (IF green THEN DVZ_MASK_COLOR_G ELSE 0)
              + (IF blue THEN DVZ_MASK_COLOR_B ELSE 0)
              + (IF alpha THEN DVZ_MASK_COLOR_A ELSE 0)]

dstim_layer_view(S, layer_idx, view) ==
    IF LayerOutOfRange(layer_idx) THEN log_error(S)
    ELSE [TOUCH_LAYER(GET_LAYER(S, layer_idx), layer_idx) EXCEPT
            !.layers[layer_idx].view = view]

dstim_layer_angle(S, layer_idx, tex_angle) ==
    IF LayerOutOfRange(layer_idx) THEN log_error(S)
    ELSE [TOUCH_LAYER(GET_LAYER(S, layer_idx), layer_idx) EXCEPT
            !.layers[layer_idx].tex_angle = tex_angle]

\* A variant: dstim_layer_offset writing the texture size.
dstim_layer_offset_IntoSize(S, layer_idx, tex_x, tex_y) ==
    IF LayerOutOfRange(layer_idx) THEN log_error(S)
    ELSE [TOUCH_LAYER(GET_LAYER(S, layer_idx), layer_idx) EXCEPT
            !.layers[layer_idx].tex_size = <<tex_x, tex_y>>]

dstim_layer_offset(S, layer_idx, tex_x, tex_y) ==
    IF LayerOutOfRange(layer_idx) THEN log_error(S)
    ELSE [TOUCH_LAYER(GET_LAYER(S, layer_idx), layer_idx) EXCEPT
            !.layers[layer_idx].tex_offset = <<tex_x, tex_y>>]

dstim_layer_size(S, layer_idx, tex_size_x, tex_size_y) ==
    IF LayerOutOfRange(layer_idx) THEN log_error(S)
    ELSE [TOUCH_LAYER(GET_LAYER(S, layer_idx), layer_idx) EXCEPT
            !.layers[layer_idx].tex_size = <<tex_size_x, tex_size_y>>]

dstim_layer_min_color(S, layer_idx, red, green, blue, alpha) ==
    IF LayerOutOfRange(layer_idx) THEN log_error(S)
    ELSE [TOUCH_LAYER(GET_LAYER(S, layer_idx), layer_idx) EXCEPT
            !.layers[layer_idx].min_color = <<red, green, blue, alpha>>]

dstim_layer_max_color(S, layer_idx, red, green, blue, alpha) ==
    IF LayerOutOfRange(layer_idx) THEN log_error(S)
    ELSE [TOUCH_LAYER(GET_LAYER(S, layer_idx), layer_idx) EXCEPT
            !.layers[layer_idx].max_color = <<red, green, blue, alpha>>]

\* A variant: dstim_layer_show with the count of GET_LAYER raised before
\* the range test.
dstim_layer_show_CountBeforeTest(S, layer_idx, is_visible) ==
    IF LayerOutOfRange(layer_idx) THEN log_error(GET_LAYER(S, layer_idx))
    ELSE [GET_LAYER(S, layer_idx) EXCEPT
            !.layers[layer_idx].is_visible = is_visible]

\* A variant: dstim_layer_show with TOUCH_LAYER, as the other setters have it.
dstim_layer_show_Touching(S, layer_idx, is_visible) ==
    IF LayerOutOfRange(layer_idx) THEN log_error(S)
    ELSE [GET_LAYER(S, layer_idx) EXCEPT
            !.layers[layer_idx].is_visible = is_visible,
            !.layers[layer_idx].is_dirty = TRUE]

dstim_layer_show(S, layer_idx, is_visible) ==
    IF LayerOutOfRange(layer_idx) THEN log_error(S)
    ELSE [GET_LAYER(S, layer_idx) EXCEPT
            !.layers[layer_idx].is_visible = is_visible]

\* ---- Layer preparation ----
bind_sphere_vertex_buffer(S, layer_idx) ==
    IF layer_idx >= DSTIM_MAX_LAYERS THEN AssertFail(S)
    ELSE Emit(S, "bind_vertex",
              <<S.sphere_graphics_ids[layer_idx], 0, S.reg.sphere_vertex_id, 0>>)

bind_sphere_index_buffer(S, layer_idx) ==
    IF layer_idx >= DSTIM_MAX_LAYERS THEN AssertFail(S)
    ELSE Emit(S, "bind_index",
              <<S.sphere_graphics_ids[layer_idx], S.reg.sphere_index_id, 0>>)

\* A variant: create_texture without ASSERT(width > 0), ASSERT(height > 0).
create_texture_AnySize(S, layer_idx, format, w, h) ==
    IF LayerOutOfRange(layer_idx) THEN log_error(S)
    ELSE [Create(GET_LAYER(S, layer_idx), "create_tex",
                 <<2, format, w, h, 1>>) EXCEPT
            !.texture_ids[layer_idx] = NewId(S),
            !.gpu[layer_idx].tex = @ + 1,
            !.gpu[layer_idx].format = format,
            !.gpu[layer_idx].width = w,
            !.gpu[layer_idx].height = h]

create_texture(S, layer_idx, format, w, h) ==
    IF LayerOutOfRange(layer_idx) THEN log_error(S)
    ELSE IF ~(w > 0 /\ h > 0) THEN AssertFail(GET_LAYER(S, layer_idx))
    ELSE [Create(GET_LAYER(S, layer_idx), "create_tex",
                 <<2, format, w, h, 1>>) EXCEPT
            !.texture_ids[layer_idx] = NewId(S),
            !.gpu[layer_idx].tex = @ + 1,
            !.gpu[layer_idx].format = format,
            !.gpu[layer_idx].width = w,
            !.gpu[layer_idx].height = h]

\* A variant: create_sampler that always asks for the NEAREST filter.
create_sampler_Nearest(S, layer_idx, filter, address_mode) ==
    IF layer_idx >= DSTIM_MAX_LAYERS THEN AssertFail(S)
    ELSE [Create(S, "create_sampler",
                 <<"DVZ_FILTER_NEAREST", address_mode>>) EXCEPT
            !.sampler_ids[layer_idx] = NewId(S),
            !.gpu[layer_idx].sampler = @ + 1,
            !.gpu[layer_idx].filter = "DVZ_FILTER_NEAREST",
            !.gpu[layer_idx].address_mode = address_mode]

create_sampler(S, layer_idx, filter, address_mode) ==
    IF layer_idx >= DSTIM_MAX_LAYERS THEN AssertFail(S)
    ELSE [Create(S, "create_sampler", <<filter, address_mode>>) EXCEPT
            !.sampler_ids[layer_idx] = NewId(S),
            !.gpu[layer_idx].sampler = @ + 1,
            !.gpu[layer_idx].filter = filter,
            !.gpu[layer_idx].address_mode = address_mode]

bind_texture(S, layer_idx) ==
    IF layer_idx >= DSTIM_MAX_LAYERS THEN AssertFail(S)
    ELSE IF S.texture_ids[layer_idx] = DVZ_ID_NONE THEN AssertFail(S)
    ELSE Emit(S, "bind_tex",
              <<S.sphere_graphics_ids[layer_idx], 0, S.texture_ids[layer_idx],
                S.sampler_ids[layer_idx]>>)

\* A variant: upload_texture handing over the address of the copy where
\* the bytes are expected.
upload_texture_Address(S, layer_idx) ==
    IF LayerOutOfRange(layer_idx) THEN log_error(S)
    ELSE IF S.texture_ids[layer_idx] = DVZ_ID_NONE
    THEN AssertFail(GET_LAYER(S, layer_idx))
    ELSE IF ~(S.layers[layer_idx].tex_width > 0
              /\ S.layers[layer_idx].tex_height > 0
              /\ S.layers[layer_idx].tex_nbytes > 0
              /\ S.layers[layer_idx].rgba # NULL)
    THEN AssertFail(GET_LAYER(S, layer_idx))
    ELSE Emit(GET_LAYER(S, layer_idx), "upload_tex",
              <<S.texture_ids[layer_idx], S.layers[layer_idx].tex_width,
                S.layers[layer_idx].tex_height, S.layers[layer_idx].tex_nbytes,
                S.layers[layer_idx].rgba>>)

\* A variant: upload_texture asserting that the size to upload is the size
\* the texture was created with.
upload_texture_Revalidating(S, layer_idx) ==
    IF LayerOutOfRange(layer_idx) THEN log_error(S)
    ELSE IF S.texture_ids[layer_idx] = DVZ_ID_NONE
    THEN AssertFail(GET_LAYER(S, layer_idx))
    ELSE IF ~(S.layers[layer_idx].tex_width = S.gpu[layer_idx].width
              /\ S.layers[layer_idx].tex_height = S.gpu[layer_idx].height
              /\ S.layers[layer_idx].tex_nbytes > 0
              /\ S.layers[layer_idx].rgba # NULL)
    THEN AssertFail(GET_LAYER(S, layer_idx))
    ELSE Emit(GET_LAYER(S, layer_idx), "upload_tex",
              <<S.texture_ids[layer_idx], S.layers[layer_idx].tex_width,
                S.layers[layer_idx].tex_height, S.layers[layer_idx].tex_nbytes,
                S.heap[S.layers[layer_idx].rgba]>>)

upload_texture(S, layer_idx) ==
    IF LayerOutOfRange(layer_idx) THEN log_error(S)
    ELSE IF S.texture_ids[layer_idx] = DVZ_ID_NONE
    THEN AssertFail(GET_LAYER(S, layer_idx))
    ELSE IF ~(S.layers[layer_idx].tex_width > 0
              /\ S.layers[layer_idx].tex_height > 0
              /\ S.layers[layer_idx].tex_nbytes > 0
              /\ S.layers[layer_idx].rgba # NULL)
    THEN AssertFail(GET_LAYER(S, layer_idx))
    ELSE Emit(GET_LAYER(S, layer_idx), "upload_tex",
              <<S.texture_ids[layer_idx], S.layers[layer_idx].tex_width,
                S.layers[layer_idx].tex_height, S.layers[layer_idx].tex_nbytes,
                S.heap[S.layers[layer_idx].rgba]>>)

set_blend(S, layer_idx) ==
    IF LayerOutOfRange(layer_idx) THEN log_error(S)
    ELSE Pipe(IF S.layers[layer_idx].blend = DSTIM_BLEND_DST
              THEN "DVZ_BLEND_DESTINATION" ELSE "DVZ_BLEND_DISABLE",
              LAMBDA blend :
              [Emit(GET_LAYER(S, layer_idx), "set_blend",
                    <<S.sphere_graphics_ids[layer_idx], blend>>) EXCEPT
                 !.gpu[layer_idx].blend = blend])

set_mask(S, layer_idx) ==
    IF LayerOutOfRange(layer_idx) THEN log_error(S)
    ELSE [Emit(GET_LAYER(S, layer_idx), "set_mask",
               <<S.sphere_graphics_ids[layer_idx], S.layers[layer_idx].mask>>)
            EXCEPT !.gpu[layer_idx].mask = S.layers[layer_idx].mask]

\* A step of a function body: skipped once an assertion has failed.
Then(S, F(_)) == Pipe(S, LAMBDA x : IF Alive(x) THEN F(x) ELSE x)

\* A variant: prepare_sphere_pipeline setting the mask before the blend.
prepare_sphere_pipeline_MaskFirst(S, layer_idx) ==
    IF LayerOutOfRange(layer_idx) THEN log_error(S)
    ELSE
    Pipe(GET_LAYER(S, layer_idx), LAMBDA S1 :
    Pipe([create_sphere_pipeline(S1) EXCEPT
            !.sphere_graphics_ids[layer_idx] = NewId(S1),
            !.gpu[layer_idx].graphics = @ + 1], LAMBDA S2 :
    Pipe(bind_sphere_vertex_buffer(S2, layer_idx), LAMBDA S3 :
    Pipe(bind_sphere_index_buffer(S3, layer_idx), LAMBDA S4 :
    Then(create_texture(S4, layer_idx, S1.layers[layer_idx].format,
                        S1.layers[layer_idx].tex_width,
                        S1.layers[layer_idx].tex_height), LAMBDA S5 :
    Then(create_sampler(
             S5, layer_idx,
             IF S1.layers[layer_idx].interpolation = DSTIM_INTERPOLATION_NEAREST
             THEN "DVZ_FILTER_NEAREST" ELSE "DVZ_FILTER_LINEAR",
             IF S1.layers[layer_idx].is_periodic
             THEN "DVZ_SAMPLER_ADDRESS_MODE_REPEAT"
             ELSE "DVZ_SAMPLER_ADDRESS_MODE_CLAMP_TO_BORDER"), LAMBDA S6 :
    Then(bind_texture(S6, layer_idx), LAMBDA S7 :
    Then(set_mask(S7, layer_idx), LAMBDA S8 :
         set_blend(S8, layer_idx)))))))))

prepare_sphere_pipeline(S, layer_idx) ==
    IF LayerOutOfRange(layer_idx) THEN log_error(S)
    ELSE
    Pipe(GET_LAYER(S, layer_idx), LAMBDA S1 :
    Pipe([create_sphere_pipeline(S1) EXCEPT
            !.sphere_graphics_ids[layer_idx] = NewId(S1),
            !.gpu[layer_idx].graphics = @ + 1], LAMBDA S2 :
    Pipe(bind_sphere_vertex_buffer(S2, layer_idx), LAMBDA S3 :
    Pipe(bind_sphere_index_buffer(S3, layer_idx), LAMBDA S4 :
    Then(create_texture(S4, layer_idx, S1.layers[layer_idx].format,
                        S1.layers[layer_idx].tex_width,
                        S1.layers[layer_idx].tex_height), LAMBDA S5 :
    Then(create_sampler(
             S5, layer_idx,
             IF S1.layers[layer_idx].interpolation = DSTIM_INTERPOLATION_NEAREST
             THEN "DVZ_FILTER_NEAREST" ELSE "DVZ_FILTER_LINEAR",
             IF S1.layers[layer_idx].is_periodic
             THEN "DVZ_SAMPLER_ADDRESS_MODE_REPEAT"
             ELSE "DVZ_SAMPLER_ADDRESS_MODE_CLAMP_TO_BORDER"), LAMBDA S6 :
    Then(bind_texture(S6, layer_idx), LAMBDA S7 :
    Then(set_blend(S7, layer_idx), LAMBDA S8 :
         set_mask(S8, layer_idx)))))))))

\* ---- Frame composition ----
\* DStimPush push = {0}.
ZeroPush ==
    [model |-> 0, view |-> 0, projection |-> 0,
     min_color |-> <<Frac(0, 1), Frac(0, 1), Frac(0, 1), Frac(0, 1)>>,
     max_color |-> <<Frac(0, 1), Frac(0, 1), Frac(0, 1), Frac(0, 1)>>,
     tex_offset |-> <<0, 0>>, tex_size |-> <<0, 0>>, tex_angle |-> 0]

\* A variant: fill_push copying the stored channels without the division.
fill_push_RawColor(S, layer_idx, projection, push) ==
    LET layer == S.layers[layer_idx]
    IN  [push EXCEPT
           !.projection = projection,
           !.view = layer.view,
           !.min_color = <<Frac(layer.min_color[1], 1),
                           Frac(layer.min_color[2], 1),
                           Frac(layer.min_color[3], 1),
                           Frac(layer.min_color[4], 1)>>,
           !.max_color = <<Frac(layer.max_color[1], 1),
                           Frac(layer.max_color[2], 1),
                           Frac(layer.max_color[3], 1),
                           Frac(layer.max_color[4], 1)>>,
           !.tex_offset = <<layer.tex_offset[1], layer.tex_offset[2]>>,
           !.tex_size = <<layer.tex_size[1], layer.tex_size[2]>>,
           !.tex_angle = layer.tex_angle]

\* A variant: fill_push without the copy of the view matrix.
fill_push_NoView(S, layer_idx, projection, push) ==
    LET layer == S.layers[layer_idx]
    IN  [push EXCEPT
           !.projection = projection,
           !.min_color = <<Frac(layer.min_color[1], 255),
                           Frac(layer.min_color[2], 255),
                           Frac(layer.min_color[3], 255),
                           Frac(layer.min_color[4], 255)>>,
           !.max_color = <<Frac(layer.max_color[1], 255),
                           Frac(layer.max_color[2], 255),
                           Frac(layer.max_color[3], 255),
                           Frac(layer.max_color[4], 255)>>,
           !.tex_offset = <<layer.tex_offset[1], layer.tex_offset[2]>>,
           !.tex_size = <<layer.tex_size[1], layer.tex_size[2]>>,
           !.tex_angle = layer.tex_angle]

\* A variant: fill_push without the copy of tex_angle.
fill_push_NoAngle(S, layer_idx, projection, push) ==
    LET layer == S.layers[layer_idx]
    IN  [push EXCEPT
           !.projection = projection,
           !.view = layer.view,
           !.min_color = <<Frac(layer.min_color[1], 255),
                           Frac(layer.min_color[2], 255),
                           Frac(layer.min_color[3], 255),
                           Frac(layer.min_color[4], 255)>>,
           !.max_color = <<Frac(layer.max_color[1], 255),
                           Frac(layer.max_color[2], 255),
                           Frac(layer.max_color[3], 255),
                           Frac(layer.max_color[4], 255)>>,
           !.tex_offset = <<layer.tex_offset[1], layer.tex_offset[2]>>,
           !.tex_size = <<layer.tex_size[1], layer.tex_size[2]>>]

\* fill_push: the fields of the block it overwrites; model is left as is.
fill_push(S, layer_idx, projection, push) ==
    LET layer == S.layers[layer_idx]
    IN  [push EXCEPT
           !.projection = projection,
           !.view = layer.view,
           !.min_color = <<Frac(layer.min_color[1], 255),
                           Frac(layer.min_color[2], 255),
                           Frac(layer.min_color[3], 255),
                           Frac(layer.min_color[4], 255)>>,
           !.max_color = <<Frac(layer.max_color[1], 255),
                           Frac(layer.max_color[2], 255),
                           Frac(layer.max_color[3], 255),
                           Frac(layer.max_color[4], 255)>>,
           !.tex_offset = <<layer.tex_offset[1], layer.tex_offset[2]>>,
           !.tex_size = <<layer.tex_size[1], layer.tex_size[2]>>,
           !.tex_angle = layer.tex_angle]

push_sphere_pipeline(S, layer_idx, push) ==
    IF LayerOutOfRange(layer_idx) THEN log_error(S)
    ELSE Emit(GET_LAYER(S, layer_idx), "record_push",
              <<S.reg.canvas_id, S.sphere_graphics_ids[layer_idx], 0,
                SIZEOF_DStimPush, push>>)

draw_sphere_pipeline(S, layer_idx) ==
    IF LayerOutOfRange(layer_idx) THEN log_error(S)
    ELSE Emit(GET_LAYER(S, layer_idx), "record_draw_indexed",
              <<S.reg.canvas_id, S.sphere_graphics_ids[layer_idx], 0, 0,
                S.reg.sphere_index_count, 0, 1>>)

\* A variant: the first loop of dstim_update preparing the layer again
\* whenever its texture is dirty.
PrepareLayer_AgainOnNewTexture(S, layer_idx) ==
    Pipe(IF S.layers[layer_idx].is_blank
            \/ S.layers[layer_idx].is_texture_dirty
         THEN Then(prepare_sphere_pipeline(S, layer_idx), LAMBDA P :
                   [P EXCEPT !.layers[layer_idx].is_blank = FALSE])
         ELSE S, LAMBDA S1 :
         IF Alive(S1) /\ S1.layers[layer_idx].is_texture_dirty
         THEN Then(upload_texture(S1, layer_idx), LAMBDA U :
                   [U EXCEPT !.layers[layer_idx].is_texture_dirty = FALSE])
         ELSE S1)

\* A variant: the first loop of dstim_update clearing is_dirty.
PrepareLayer_ClearDirty(S, layer_idx) ==
    Pipe(IF S.layers[layer_idx].is_blank
         THEN Then(prepare_sphere_pipeline(S, layer_idx), LAMBDA P :
                   [P EXCEPT !.layers[layer_idx].is_blank = FALSE])
         ELSE S, LAMBDA S1 :
         IF Alive(S1) /\ S1.layers[layer_idx].is_texture_dirty
         THEN Then(upload_texture(S1, layer_idx), LAMBDA U :
                   [U EXCEPT !.layers[layer_idx].is_texture_dirty = FALSE,
                             !.layers[layer_idx].is_dirty = FALSE])
         ELSE [S1 EXCEPT !.layers[layer_idx].is_dirty = FALSE])

\* A variant: the first loop of dstim_update without `layer->is_blank = false`.
PrepareLayer_KeepBlank(S, layer_idx) ==
    Pipe(IF S.layers[layer_idx].is_blank
         THEN prepare_sphere_pipeline(S, layer_idx)
         ELSE S, LAMBDA S1 :
         IF Alive(S1) /\ S1.layers[layer_idx].is_texture_dirty
         THEN Then(upload_texture(S1, layer_idx), LAMBDA U :
                   [U EXCEPT !.layers[layer_idx].is_texture_dirty = FALSE])
         ELSE S1)

\* A variant: the first loop of dstim_update without `is_texture_dirty = false`.
PrepareLayer_KeepTextureDirty(S, layer_idx) ==
    Pipe(IF S.layers[layer_idx].is_blank
         THEN Then(prepare_sphere_pipeline(S, layer_idx), LAMBDA P :
                   [P EXCEPT !.layers[layer_idx].is_blank = FALSE])
         ELSE S, LAMBDA S1 :
         IF Alive(S1) /\ S1.layers[layer_idx].is_texture_dirty
         THEN upload_texture(S1, layer_idx)
         ELSE S1)

\* The body of the first loop of dstim_update for one layer.
PrepareLayer(S, layer_idx) ==
    Pipe(IF S.layers[layer_idx].is_blank
         THEN Then(prepare_sphere_pipeline(S, layer_idx), LAMBDA P :
                   [P EXCEPT !.layers[layer_idx].is_blank = FALSE])
         ELSE S, LAMBDA S1 :
         IF Alive(S1) /\ S1.layers[layer_idx].is_texture_dirty
         THEN Then(upload_texture(S1, layer_idx), LAMBDA U :
                   [U EXCEPT !.layers[layer_idx].is_texture_dirty = FALSE])
         ELSE S1)

\* First pass: all layers from layer_idx on.
RECURSIVE PreparePass(_, _)
PreparePass(S, layer_idx) ==
    IF ~Alive(S) \/ layer_idx >= S.layer_count THEN S
    ELSE Pipe(PrepareLayer(S, layer_idx), LAMBDA S1 :
              PreparePass(S1, layer_idx + 1))

\* The inner loop: the layers from layer_idx on, on one screen.  The
\* result is the state and the push block, which the loop reuses.
RECURSIVE DrawLayers(_, _, _, _)
DrawLayers(S, push, screen_idx, layer_idx) ==
    IF layer_idx >= S.layer_count THEN [S |-> S, push |-> push]
    ELSE IF ~S.layers[layer_idx].is_visible
    THEN DrawLayers(S, push, screen_idx, layer_idx + 1)
    ELSE Pipe(fill_push(S, layer_idx, S.screens[screen_idx].projection, push),
              LAMBDA filled :
         Pipe(push_sphere_pipeline(S, layer_idx, filled), LAMBDA S1 :
         Pipe(draw_sphere_pipeline(S1, layer_idx), LAMBDA S2 :
              DrawLayers(S2, filled, screen_idx, layer_idx + 1))))

\* The outer loop: the screens from screen_idx on.
RECURSIVE DrawScreens(_, _, _)
DrawScreens(S, push, screen_idx) ==
    IF screen_idx >= S.screen_count THEN S
    ELSE Pipe(Emit(S, "record_viewport",
                   <<S.reg.canvas_id,
                     S.screens[screen_idx].offset[1],
                     S.screens[screen_idx].offset[2],
                     S.screens[screen_idx].size[1],
                     S.screens[screen_idx].size[2]>>), LAMBDA S1 :
         Pipe(DrawLayers(S1, push, screen_idx, 0), LAMBDA R :
              DrawScreens(R.S, R.push, screen_idx + 1)))

\* A variant: dstim_update recording the screens before it prepares the
\* layers.
dstim_update_DrawFirst(S) ==
    IF S.reg.canvas_id = DVZ_ID_NONE THEN AssertFail(S)
    ELSE
    Pipe(EmitAll(S, << Cmd("record_begin", <<S.reg.canvas_id>>),
                       Cmd("record_viewport",
                           <<S.reg.canvas_id, 0, 0, S.width, S.height>>),
                       Cmd("record_draw",
                           <<S.reg.canvas_id, S.reg.background_graphics_id, 0,
                             SQUARE_VERTEX_COUNT, 0, 1>>) >>), LAMBDA S3 :
    Pipe(DrawScreens(S3, [ZeroPush EXCEPT !.model = S.model], 0), LAMBDA S4 :
    Then(PreparePass(S4, 0), LAMBDA S5 :
         EmitAll(S5, << Cmd("record_viewport",
                            <<S.reg.canvas_id, 0, 0, S.width, S.height>>),
                        Cmd("record_draw",
                            <<S.reg.canvas_id, S.reg.square_graphics_id, 0,
                              SQUARE_VERTEX_COUNT, 0, 1>>),
                        Cmd("record_end", <<S.reg.canvas_id>>),
                        Cmd("submit", << >>) >>))))

dstim_update(S) ==
    IF S.reg.canvas_id = DVZ_ID_NONE THEN AssertFail(S)
    ELSE
    Pipe(EmitAll(S, << Cmd("record_begin", <<S.reg.canvas_id>>),
                       Cmd("record_viewport",
                           <<S.reg.canvas_id, 0, 0, S.width, S.height>>),
                       Cmd("record_draw",
                           <<S.reg.canvas_id, S.reg.background_graphics_id, 0,
                             SQUARE_VERTEX_COUNT, 0, 1>>) >>), LAMBDA S3 :
    Then(PreparePass(S3, 0), LAMBDA S4 :
    Pipe(DrawScreens(S4, [ZeroPush EXCEPT !.model = S.model], 0), LAMBDA S5 :
         EmitAll(S5, << Cmd("record_viewport",
                            <<S.reg.canvas_id, 0, 0, S.width, S.height>>),
                        Cmd("record_draw",
                            <<S.reg.canvas_id, S.reg.square_graphics_id, 0,
                              SQUARE_VERTEX_COUNT, 0, 1>>),
                        Cmd("record_end", <<S.reg.canvas_id>>),
                        Cmd("submit", << >>) >>))))

\* ---- Teardown ----
RECURSIVE FreeLayers(_, _)
FreeLayers(S, layer_idx) ==
    IF layer_idx >= S.layer_count THEN S
    ELSE Pipe(IF S.layers[layer_idx].rgba # NULL
              THEN Free(S, S.layers[layer_idx].rgba) ELSE S, LAMBDA S1 :
              FreeLayers(S1, layer_idx + 1))

dstim_cleanup(S) ==
    Pipe(Emit(S, "app_destroy", << >>), LAMBDA S1 :
         [FreeLayers(S1, 0) EXCEPT !.pc = "closed"])

\* ---- The scene of main() ----
\* The layer block of main(): the texture, then every parameter, then show.
\* What the caller does with a buffer of its own: FREE(rgba), after which
\* it holds nothing there, and a write of other bytes over it.
caller_free(S, rgba) == [S EXCEPT !.caller[rgba] = << >>]

\* rgba = read_file(...): the buffer is filled.
caller_read(S, rgba) == [S EXCEPT !.caller[rgba] = CallerMem[rgba]]

caller_write(S, rgba) ==
    [S EXCEPT !.caller[rgba] = [k \in 1 .. Len(@) |-> 255 - @[k]]]

main_layer(S, layer_idx, x, blend, mask, is_periodic, view, size) ==
    Pipe(caller_read(S, x.rgba), LAMBDA R :
    Pipe(dstim_layer_texture(R, layer_idx, x.format, x.width, x.height,
                             x.tex_nbytes, x.rgba), LAMBDA S0 :
    Pipe(caller_free(S0, x.rgba), LAMBDA S1 :
    Pipe(dstim_layer_blend(S1, layer_idx, blend), LAMBDA S2 :
    Pipe(dstim_layer_mask(S2, layer_idx, mask[1], mask[2], mask[3], mask[4]),
         LAMBDA S3 :
    Pipe(dstim_layer_interpolation(S3, layer_idx, DSTIM_INTERPOLATION_LINEAR),
         LAMBDA S4 :
    Pipe(dstim_layer_periodic(S4, layer_idx, is_periodic), LAMBDA S5 :
    Pipe(dstim_layer_view(S5, layer_idx, view), LAMBDA S6 :
    Pipe(dstim_layer_angle(S6, layer_idx, 0), LAMBDA S7 :
    Pipe(dstim_layer_offset(S7, layer_idx, -90, 0), LAMBDA S8 :
    Pipe(dstim_layer_size(S8, layer_idx, size[1], size[2]), LAMBDA S9 :
    Pipe(dstim_layer_min_color(S9, layer_idx, 0, 0, 0, 0), LAMBDA S10 :
    Pipe(dstim_layer_max_color(S10, layer_idx, 255, 255, 255, 255),
         LAMBDA S11 :
         dstim_layer_show(S11, layer_idx, TRUE))))))))))))))

\* main() up to its first dstim_update: the model, three screens side by
\* side with their projections, the stencil layer and the grating layer.
\* The matrices and pixels main() reads from files are opaque values here,
\* and the two textures are the caller's 1x1 and 2x1 ones.
main ==
    Pipe(dstim_init(DSTIM_DEFAULT_WIDTH, DSTIM_DEFAULT_HEIGHT), LAMBDA S0 :
    Pipe(dstim_model(S0, 9), LAMBDA S1 :
    Pipe(dstim_screen(S1, 0, 0, 0, 320, 400), LAMBDA S2 :
    Pipe(dstim_screen(S2, 1, 320, 0, 320, 400), LAMBDA S3 :
    Pipe(dstim_screen(S3, 2, 640, 0, 320, 400), LAMBDA S4 :
    Pipe(dstim_projection(S4, 0, 11), LAMBDA S5 :
    Pipe(dstim_projection(S5, 1, 12), LAMBDA S6 :
    Pipe(dstim_projection(S6, 2, 13), LAMBDA S7 :
    Pipe(main_layer(S7, 0,
                    [format |-> DVZ_FORMAT_R8G8B8A8_UNORM, width |-> 1,
                     height |-> 1, tex_nbytes |-> 4, rgba |-> 103],
                    DSTIM_BLEND_NONE, <<FALSE, FALSE, FALSE, TRUE>>, FALSE,
                    8, <<65, 65>>), LAMBDA S8 :
         main_layer(S8, 1,
                    [format |-> DVZ_FORMAT_R8G8B8A8_UNORM, width |-> 2,
                     height |-> 1, tex_nbytes |-> 8, rgba |-> 104],
                    DSTIM_BLEND_DST, <<TRUE, TRUE, TRUE, TRUE>>, TRUE,
                    8, <<5, 180>>))))))))))


\* ---- Actions: one per call of the API ----
\* A configuration call is made while the scene is alive, within the bound.
CanCall == pc = "run" /\ ncalls < MaxCalls

Config(S, op, idx) == [Call(S, op, idx) EXCEPT !.ncalls = @ + 1]

\* The second scene at the entry of the call the first is at the entry of.
SameCall(W, S) ==
    [W EXCEPT !.cmds = S.cmds, !.last = S.last, !.ncalls = S.ncalls]

\* The step of a call: R(S) is the call applied to S, the state at its
\* entry; the second scene, if there is one, receives the same call.
Step(entry, R(_)) ==
    \E S \in {entry} : \E T \in {R(S)} :
       /\ Become(T)
       /\ twin' = IF twin.pc = "none" THEN twin ELSE R(SameCall(twin, S))

Background ==
    /\ CanCall
    /\ \E c \in {DSTIM_DEFAULT_BACKGROUND} :
         Step(Config(Cur, "background", 0),
              LAMBDA S : dstim_background(S, c[1], c[2], c[3], c[4]))

SquarePos ==
    /\ CanCall
    /\ \E r \in SquareRects :
         Step(Config(Cur, "square_pos", 0),
              LAMBDA S : dstim_square_pos(S, U32(r[1]), U32(r[2]),
                                          U32(r[3]), U32(r[4])))

SquareColor ==
    /\ CanCall
    /\ \E c \in {DSTIM_ALTERNATIVE_SQUARE_COLOR} :
         Step(Config(Cur, "square_color", 0),
              LAMBDA S : dstim_square_color(S, c[1], c[2], c[3], c[4]))

Model ==
    /\ CanCall
    /\ \E m \in ModelMats :
         Step(Config(Cur, "model", 0),
              LAMBDA S : dstim_model(S, m))

Screen ==
    /\ CanCall
    /\ \E i \in ScreenIdx, r \in Rects :
         Step(Config(Cur, "screen", i),
              LAMBDA S : dstim_screen(S, i, r[1], r[2], r[3], r[4]))

Projection ==
    /\ CanCall
    /\ \E i \in ScreenIdx, m \in ProjMats :
         Step(Config(Cur, "projection", i),
              LAMBDA S : dstim_projection(S, i, m))

LayerTexture ==
    /\ CanCall
    /\ \E i \in LayerIdx, x \in {y \in Textures : caller[y.rgba] # << >>} :
         Step(Config(Cur, "layer_texture", i),
              LAMBDA S : dstim_layer_texture(S, i, x.format, x.width, x.height,
                                    x.tex_nbytes, x.rgba))

LayerInterpolation ==
    /\ CanCall
    /\ \E i \in LayerIdx, v \in Interpolations :
         Step(Config(Cur, "layer_interpolation", i),
              LAMBDA S : dstim_layer_interpolation(S, i, v))

LayerPeriodic ==
    /\ CanCall
    /\ \E i \in LayerIdx, v \in BOOLEAN :
         Step(Config(Cur, "layer_periodic", i),
              LAMBDA S : dstim_layer_periodic(S, i, v))

LayerBlend ==
    /\ CanCall
    /\ \E i \in LayerIdx, v \in Blends :
         Step(Config(Cur, "layer_blend", i),
              LAMBDA S : dstim_layer_blend(S, i, v))

LayerMask ==
    /\ CanCall
    /\ \E i \in LayerIdx, v \in Masks :
         Step(Config(Cur, "layer_mask", i),
              LAMBDA S : dstim_layer_mask(S, i, v[1], v[2], v[3], v[4]))

LayerView ==
    /\ CanCall
    /\ \E i \in LayerIdx, v \in ViewMats :
         Step(Config(Cur, "layer_view", i),
              LAMBDA S : dstim_layer_view(S, i, v))

LayerAngle ==
    /\ CanCall
    /\ \E i \in LayerIdx, v \in Angles :
         Step(Config(Cur, "layer_angle", i),
              LAMBDA S : dstim_layer_angle(S, i, v))

LayerOffset ==
    /\ CanCall
    /\ \E i \in LayerIdx, v \in Offsets :
         Step(Config(Cur, "layer_offset", i),
              LAMBDA S : dstim_layer_offset(S, i, v[1], v[2]))

LayerSize ==
    /\ CanCall
    /\ \E i \in LayerIdx, v \in Sizes :
         Step(Config(Cur, "layer_size", i),
              LAMBDA S : dstim_layer_size(S, i, v[1], v[2]))

LayerMinColor ==
    /\ CanCall
    /\ \E i \in LayerIdx, c \in MinColors :
         Step(Config(Cur, "layer_min_color", i),
              LAMBDA S : dstim_layer_min_color(S, i, c[1], c[2], c[3], c[4]))

LayerMaxColor ==
    /\ CanCall
    /\ \E i \in LayerIdx, c \in MaxColors :
         Step(Config(Cur, "layer_max_color", i),
              LAMBDA S : dstim_layer_max_color(S, i, c[1], c[2], c[3], c[4]))

LayerShow ==
    /\ CanCall
    /\ \E i \in LayerIdx, v \in BOOLEAN :
         Step(Config(Cur, "layer_show", i),
              LAMBDA S : dstim_layer_show(S, i, v))

\* The caller writes over one of its buffers, or frees it.
\* The buffers the caller still holds after it has passed them to the
\* texture setter.
PassedBuffers ==
    {q \in DOMAIN caller :
        /\ caller[q] # << >>
        /\ \E l \in 0 .. DSTIM_MAX_LAYERS - 1 : passed[l].rgba = q}

CallerWrites ==
    /\ CanCall
    /\ \E p \in PassedBuffers :
         Step(Config(Cur, "caller_write", 0), LAMBDA S : caller_write(S, p))

CallerFrees ==
    /\ CanCall
    /\ \E p \in PassedBuffers :
         Step(Config(Cur, "caller_free", 0), LAMBDA S : caller_free(S, p))

Update ==
    /\ pc = "run"
    /\ Step(Call(Cur, "update", 0), LAMBDA S : dstim_update(S))

Cleanup ==
    /\ pc = "run"
    /\ Step(Call(Cur, "cleanup", 0), LAMBDA S : dstim_cleanup(S))

\* ---- Specification ----
\* The scene right after dstim_init(960, 400), as main() constructs it.
Start(S) ==
    /\ pc = S.pc
    /\ width = S.width
    /\ height = S.height
    /\ model = S.model
    /\ screen_count = S.screen_count
    /\ screens = S.screens
    /\ layer_count = S.layer_count
    /\ layers = S.layers
    /\ reg = S.reg
    /\ sphere_graphics_ids = S.sphere_graphics_ids
    /\ texture_ids = S.texture_ids
    /\ sampler_ids = S.sampler_ids
    /\ next_id = S.next_id
    /\ heap = S.heap
    /\ caller = S.caller
    /\ passed = S.passed
    /\ gpu = S.gpu
    /\ cmds = S.cmds
    /\ last = S.last
    /\ ncalls = S.ncalls

Init ==
    /\ \E S \in {dstim_init(DSTIM_DEFAULT_WIDTH, DSTIM_DEFAULT_HEIGHT)} :
          Start(S)
    /\ twin = NoTwin

Next ==
    \/ Background
    \/ SquarePos
    \/ SquareColor
    \/ Model
    \/ Screen
    \/ Projection
    \/ LayerTexture
    \/ LayerInterpolation
    \/ LayerPeriodic
    \/ LayerBlend
    \/ LayerMask
    \/ LayerView
    \/ LayerAngle
    \/ LayerOffset
    \/ LayerSize
    \/ LayerMinColor
    \/ LayerMaxColor
    \/ LayerShow
    \/ CallerWrites
    \/ CallerFrees
    \/ Update
    \/ Cleanup

Spec == Init /\ [][Next]_vars

\* The same calls, made on the scene main() has configured.
InitConfigured ==
    /\ \E S \in {[main EXCEPT !.last.op = "main"]} : Start(S)
    /\ twin = NoTwin

SpecConfigured == InitConfigured /\ [][Next]_vars

\* dstim_init called with any width and height, then the calls above.
\* The canvas sizes: a side of 0, the default size, and 64 x 64, whose
\* sides are shorter than the default square's.
CanvasSizes ==
    {<<0, 0>>, <<0, DSTIM_DEFAULT_HEIGHT>>, <<DSTIM_DEFAULT_WIDTH, 0>>,
     <<64, 64>>, <<DSTIM_DEFAULT_WIDTH, DSTIM_DEFAULT_HEIGHT>>}

InitAnySize ==
    /\ \E c \in CanvasSizes : \E S \in {dstim_init(c[1], c[2])} : Start(S)
    /\ twin = NoTwin

SpecAnySize == InitAnySize /\ [][Next]_vars

\* Two scenes created by dstim_init(960, 400) in one process and given
\* the same calls.  The process heap holds a live block when the second
\* scene is created, so that malloc hands the two scenes different
\* addresses.
OtherBlock == [q \in {1} |-> <<0>>]

InitTwin ==
    \E S \in {dstim_init(DSTIM_DEFAULT_WIDTH, DSTIM_DEFAULT_HEIGHT)} :
       /\ Start(S)
       /\ twin = [S EXCEPT !.heap = OtherBlock]

SpecTwin == InitTwin /\ [][Next]_vars

\* ---- Vocabulary of the properties ----
ValidLayers == 0 .. DSTIM_MAX_LAYERS - 1

LayerSetters ==
    {"layer_texture", "layer_interpolation", "layer_periodic", "layer_blend",
     "layer_mask", "layer_view", "layer_angle", "layer_offset", "layer_size",
     "layer_min_color", "layer_max_color", "layer_show"}

ScreenSetters == {"screen", "projection"}

\* The commands of one frame, and among them those between begin and end.
FrameCmdNames ==
    {"record_begin", "record_viewport", "record_draw", "record_push",
     "record_draw_indexed", "record_end", "submit"}

PerFrameCmdNames ==
    {"record_viewport", "record_draw", "record_push", "record_draw_indexed"}

\* The commands that prepare a layer.
PrepareCmdNames ==
    {"create_graphics", "create_spirv", "set_shader", "set_primitive",
     "set_front", "set_polygon", "set_vertex", "set_attr", "set_slot",
     "set_push", "bind_vertex", "bind_index", "create_tex", "create_sampler",
     "bind_tex", "set_blend", "set_mask"}

Only(cs, names) == SelectSeq(cs, LAMBDA c : c.cmd \in names)

Has(cs, names) == \E k \in 1 .. Len(cs) : cs[k].cmd \in names

IsPrefix(s, u) == Len(s) <= Len(u) /\ s = SubSeq(u, 1, Len(s))

\* The uploads of the texture object of layer l among the commands cs.
UploadsOf(cs, tex_id) ==
    Cardinality({k \in 1 .. Len(cs) :
                    cs[k].cmd = "upload_tex" /\ cs[k].par[1] = tex_id})

\* The concatenation of F(0), ..., F(n - 1).
RECURSIVE FlatTo(_, _)
FlatTo(ss, n) == IF n = 0 THEN << >> ELSE FlatTo(ss, n - 1) \o ss[n]

Flat(n, F(_)) == FlatTo([k \in 1 .. n |-> F(k - 1)], n)

\* The frame the documented order prescribes for the configuration S:
\* begin, full viewport, background, then per screen its viewport and per
\* visible layer a push-constant record and an indexed draw, then full
\* viewport, square, end, submit.
PushOf(S, s, l) ==
    [model |-> S.model, view |-> S.layers[l].view,
     projection |-> S.screens[s].projection,
     min_color |-> [k \in 1 .. 4 |-> Frac(S.layers[l].min_color[k], 255)],
     max_color |-> [k \in 1 .. 4 |-> Frac(S.layers[l].max_color[k], 255)],
     tex_offset |-> S.layers[l].tex_offset,
     tex_size |-> S.layers[l].tex_size,
     tex_angle |-> S.layers[l].tex_angle]

LayerFrame(S, s, l) ==
    IF ~S.layers[l].is_visible THEN << >>
    ELSE << Cmd("record_push",
                <<S.reg.canvas_id, S.sphere_graphics_ids[l], 0,
                  SIZEOF_DStimPush, PushOf(S, s, l)>>),
            Cmd("record_draw_indexed",
                <<S.reg.canvas_id, S.sphere_graphics_ids[l], 0, 0,
                  S.reg.sphere_index_count, 0, 1>>) >>

ScreenFrame(S, s) ==
    << Cmd("record_viewport",
           <<S.reg.canvas_id, S.screens[s].offset[1], S.screens[s].offset[2],
             S.screens[s].size[1], S.screens[s].size[2]>>) >>
    \o Flat(S.layer_count, LAMBDA l : LayerFrame(S, s, l))

DocumentedFrame(S) ==
    << Cmd("record_begin", <<S.reg.canvas_id>>),
       Cmd("record_viewport", <<S.reg.canvas_id, 0, 0, S.width, S.height>>),
       Cmd("record_draw",
           <<S.reg.canvas_id, S.reg.background_graphics_id, 0,
             SQUARE_VERTEX_COUNT, 0, 1>>) >>
    \o Flat(S.screen_count, LAMBDA s : ScreenFrame(S, s))
    \o << Cmd("record_viewport", <<S.reg.canvas_id, 0, 0, S.width, S.height>>),
          Cmd("record_draw",
              <<S.reg.canvas_id, S.reg.square_graphics_id, 0,
                SQUARE_VERTEX_COUNT, 0, 1>>),
          Cmd("record_end", <<S.reg.canvas_id>>),
          Cmd("submit", << >>) >>

\* The fixed state of a layer as configured, in the collaborator's terms,
\* and as the collaborator holds it.
ConfiguredFixed(layer) ==
    [format |-> layer.format, width |-> layer.tex_width,
     height |-> layer.tex_height,
     filter |-> IF layer.interpolation = DSTIM_INTERPOLATION_NEAREST
                THEN "DVZ_FILTER_NEAREST" ELSE "DVZ_FILTER_LINEAR",
     address_mode |-> IF layer.is_periodic
                      THEN "DVZ_SAMPLER_ADDRESS_MODE_REPEAT"
                      ELSE "DVZ_SAMPLER_ADDRESS_MODE_CLAMP_TO_BORDER",
     blend |-> IF layer.blend = DSTIM_BLEND_DST
               THEN "DVZ_BLEND_DESTINATION" ELSE "DVZ_BLEND_DISABLE",
     mask |-> layer.mask]

HeldFixed(g) ==
    [format |-> g.format, width |-> g.width, height |-> g.height,
     filter |-> g.filter, address_mode |-> g.address_mode,
     blend |-> g.blend, mask |-> g.mask]

\* ---- Properties ----
\* C1: a layer setter called with layer_idx >= DSTIM_MAX_LAYERS reports an
\* error and leaves layer_count, every field and flag of every layer and
\* every owned buffer as they were; it makes no request either.
C1_LayerIndexOutOfRange ==
    [][(last'.op \in LayerSetters /\ last'.idx >= DSTIM_MAX_LAYERS)
       => /\ last'.err
          /\ layer_count' = layer_count
          /\ layers' = layers
          /\ heap' = heap
          /\ cmds' = << >>]_vars

\* C1, its case: an out-of-range texture setter call on a scene that
\* already holds a layer with an owned buffer.
C1_Witness ==
    /\ last.op = "layer_texture"
    /\ last.idx >= DSTIM_MAX_LAYERS
    /\ last.err
    /\ layer_count > 0
    /\ layers[0].rgba # NULL

\* C2: after every update(), the frame commands it made are exactly the
\* documented sequence, from begin recording to end recording and submit.
C2_EveryUpdateRecordsTheFrame ==
    last.op = "update" => Only(cmds, FrameCmdNames) = DocumentedFrame(Cur)

\* C3: the texture setter with a valid index sets is_texture_dirty; an
\* update() uploads the texture of each layer whose flag is set exactly
\* once and clears the flag, and uploads nothing for a layer whose flag is
\* clear.
C3_TextureUploadedOnce ==
    [][/\ (last'.op = "layer_texture" /\ ~last'.err /\ pc' = "run")
             => layers'[last'.idx].is_texture_dirty
       /\ last'.op = "update"
             => \A l \in 0 .. layer_count - 1 :
                   IF layers[l].is_texture_dirty
                   THEN /\ UploadsOf(cmds', texture_ids'[l]) = 1
                        /\ ~layers'[l].is_texture_dirty
                   ELSE /\ UploadsOf(cmds', texture_ids'[l]) = 0
                        /\ ~layers'[l].is_texture_dirty]_vars

\* C4: a layer is prepared at most once.  No step sets is_blank back to
\* true, a layer that is no longer blank gets no further pipeline, texture
\* or sampler, and none is ever created twice for one layer.
C4_PreparedAtMostOnce ==
    [][\A l \in ValidLayers :
          /\ ~layers[l].is_blank => ~layers'[l].is_blank
          /\ ~layers[l].is_blank
                => /\ gpu'[l].graphics = gpu[l].graphics
                   /\ gpu'[l].tex = gpu[l].tex
                   /\ gpu'[l].sampler = gpu[l].sampler
          /\ gpu'[l].graphics <= 1
          /\ gpu'[l].tex <= 1
          /\ gpu'[l].sampler <= 1]_vars

\* C4, its case: an update() on a layer prepared by an earlier update(),
\* with a new texture set in between: an upload and no creation.
C4_Witness ==
    /\ last.op = "update"
    /\ ~layers[0].is_blank
    /\ gpu[0].graphics = 1 /\ gpu[0].tex = 1 /\ gpu[0].sampler = 1
    /\ Has(cmds, {"upload_tex"})
    /\ ~Has(cmds, PrepareCmdNames)

\* C5: an update() right after an update() makes no preparation request
\* and no texture upload, changes no is_blank or is_texture_dirty flag, and
\* records the same viewport, push-constant and draw commands, contents
\* included.
C5_SecondUpdateIdentical ==
    [][(last.op = "update" /\ last'.op = "update")
       => /\ ~Has(cmds', PrepareCmdNames \cup {"upload_tex"})
          /\ \A l \in ValidLayers :
                /\ layers'[l].is_blank = layers[l].is_blank
                /\ layers'[l].is_texture_dirty = layers[l].is_texture_dirty
          /\ Only(cmds', PerFrameCmdNames) = Only(cmds, PerFrameCmdNames)
          /\ pc' = "run"
          /\ Has(cmds', {"submit"})]_vars

\* C5, its case: the scene of main() after update() twice and no other
\* call: the second one made no preparation request and drew the layers.
C5_Witness ==
    /\ last.op = "update"
    /\ ncalls = 0
    /\ ~layers[0].is_blank /\ ~layers[1].is_blank
    /\ ~Has(cmds, PrepareCmdNames \cup {"upload_tex"})
    /\ Len(Only(cmds, {"record_push"})) = 6

C7_UpdateRunsToCompletion ==
    last.op = "update"
    => /\ pc = "run"
       /\ Len(cmds) >= 2
       /\ cmds[Len(cmds) - 1].cmd = "record_end"
       /\ cmds[Len(cmds)].cmd = "submit"

\* C8 as stated: after any layer setter but the visibility setter, the
\* texture setter included, called with a valid index, is_dirty is true.
C8_EverySetterButShowDirties ==
    (last.op \in LayerSetters \ {"layer_show"} /\ ~last.err /\ pc = "run")
    => layers[last.idx].is_dirty

\* C8, amended: a layer setter other than the visibility and texture
\* setters, called with a valid index, leaves is_dirty true; the texture
\* setter sets is_texture_dirty and leaves is_dirty as it was.
C8_SettersDirty ==
    [][(last'.op \in LayerSetters /\ ~last'.err /\ pc' = "run")
       => /\ last'.op \notin {"layer_show", "layer_texture"}
                => layers'[last'.idx].is_dirty
          /\ last'.op = "layer_texture"
                => /\ layers'[last'.idx].is_texture_dirty
                   /\ layers'[last'.idx].is_dirty
                         = layers[last'.idx].is_dirty]_vars

\* C8, its case: the texture setter has just acted on layer 0, which is
\* texture-dirty and not dirty, after a parameter setter dirtied layer 1.
C8_Witness ==
    /\ last.op = "layer_texture"
    /\ last.idx = 0
    /\ ~last.err
    /\ layers[0].is_texture_dirty
    /\ ~layers[0].is_dirty
    /\ layers[1].is_dirty

\* C9: dstim_layer_show with a valid index changes is_visible of that
\* layer and nothing else of any layer, raises layer_count to cover the
\* index, leaves every owned buffer alone and makes no request.
C9_ShowIsPureToggle ==
    [][(last'.op = "layer_show" /\ ~last'.err)
       => /\ layers' = [layers EXCEPT
                           ![last'.idx].is_visible =
                               layers'[last'.idx].is_visible]
          /\ layer_count' = MAX(layer_count, last'.idx + 1)
          /\ heap' = heap
          /\ gpu' = gpu
          /\ cmds' = << >>
          /\ pc' = pc]_vars

\* C9, its case: a layer shown right after its texture was set: visible,
\* texture-dirty, not dirty, still blank, its buffer in place.
C9_Witness ==
    /\ last.op = "layer_show"
    /\ ~last.err
    /\ layers[last.idx].is_visible
    /\ layers[last.idx].is_texture_dirty
    /\ ~layers[last.idx].is_dirty
    /\ layers[last.idx].is_blank
    /\ layers[last.idx].rgba # NULL
    /\ cmds = << >>

\* C10: dstim_screen and dstim_projection called with screen_idx >=
\* DSTIM_MAX_SCREENS report an error, leave screen_count and every screen
\* as they were, and the program goes on.
C10_ScreenIndexOutOfRange ==
    [][(last'.op \in ScreenSetters /\ last'.idx >= DSTIM_MAX_SCREENS)
       => /\ last'.err
          /\ screen_count' = screen_count
          /\ screens' = screens
          /\ pc' = "run"]_vars

\* C10, its case: an out-of-range screen call on a scene that has a
\* screen, the program still running.
C10_Witness ==
    /\ last.op \in ScreenSetters
    /\ last.idx >= DSTIM_MAX_SCREENS
    /\ last.err
    /\ screen_count > 0
    /\ pc = "run"

\* C11: a valid screen (layer) setter call with index i leaves the count
\* at the larger of the old count and i + 1, every other step leaves it
\* alone, the counts stay within 8 and 16, and every update() processes
\* every index below the counts: it leaves no layer below layer_count
\* blank and records a viewport for every screen below screen_count.
C11_DenseCounts ==
    [][/\ screen_count' =
             IF last'.op \in ScreenSetters /\ ~last'.err
             THEN MAX(screen_count, last'.idx + 1) ELSE screen_count
       /\ layer_count' =
             IF last'.op \in LayerSetters /\ ~last'.err /\ pc' = "run"
             THEN MAX(layer_count, last'.idx + 1) ELSE layer_count
       /\ screen_count' <= DSTIM_MAX_SCREENS
       /\ layer_count' <= DSTIM_MAX_LAYERS
       /\ last'.op = "update"
             => /\ \A l \in 0 .. layer_count - 1 : ~layers'[l].is_blank
                /\ Len(Only(cmds', {"record_viewport"})) = screen_count + 2
      ]_vars

\* The same with the update() part restricted to the updates that complete:
\* the only steps that break the property above are those where update()
\* aborts.
DenseCountsWhenCompleted ==
    [][/\ screen_count' =
             IF last'.op \in ScreenSetters /\ ~last'.err
             THEN MAX(screen_count, last'.idx + 1) ELSE screen_count
       /\ layer_count' =
             IF last'.op \in LayerSetters /\ ~last'.err /\ pc' = "run"
             THEN MAX(layer_count, last'.idx + 1) ELSE layer_count
       /\ screen_count' <= DSTIM_MAX_SCREENS
       /\ layer_count' <= DSTIM_MAX_LAYERS
       /\ (last'.op = "update" /\ pc' = "run")
             => /\ \A l \in 0 .. layer_count - 1 : ~layers'[l].is_blank
                /\ Len(Only(cmds', {"record_viewport"})) = screen_count + 2
      ]_vars

\* The (screen, layer) pairs update() draws for the configuration S, in
\* the order it draws them: screens outer, visible layers inner.
DrawnPairs(S) ==
    Flat(S.screen_count, LAMBDA s :
        Flat(S.layer_count, LAMBDA l :
            IF S.layers[l].is_visible THEN << <<s, l>> >> ELSE << >>))

\* C12: after update(), the j-th push-constant block recorded is that of
\* the j-th drawn (screen s, layer l) pair and holds the model, the view
\* of l, the projection of s, and the colors, offset, size and angle of l;
\* every indexed draw comes right after the push of the same pipeline; an
\* update() that completes records one block per drawn pair.
C12_PushBlockOfEachDraw ==
    last.op = "update"
    => LET P == Only(cmds, {"record_push"})
           D == DrawnPairs(Cur)
       IN  /\ Len(P) <= Len(D)
           /\ pc = "run" => Len(P) = Len(D)
           /\ \A j \in 1 .. Len(P) :
                 /\ P[j].par[2] = sphere_graphics_ids[D[j][2]]
                 /\ P[j].par[5] =
                       [model |-> model,
                        view |-> layers[D[j][2]].view,
                        projection |-> screens[D[j][1]].projection,
                        min_color |->
                           [k \in 1 .. 4 |->
                              Frac(layers[D[j][2]].min_color[k], 255)],
                        max_color |->
                           [k \in 1 .. 4 |->
                              Frac(layers[D[j][2]].max_color[k], 255)],
                        tex_offset |-> layers[D[j][2]].tex_offset,
                        tex_size |-> layers[D[j][2]].tex_size,
                        tex_angle |-> layers[D[j][2]].tex_angle]
           /\ \A k \in 1 .. Len(cmds) :
                 cmds[k].cmd = "record_draw_indexed"
                 => /\ k > 1
                    /\ cmds[k - 1].cmd = "record_push"
                    /\ cmds[k - 1].par[2] = cmds[k].par[2]

\* C12, its case: the scene of main() with another angle and view for
\* layer 0 only: six blocks, and the block of layer 1 that follows the
\* block of layer 0 has the angle and view of layer 1; the blocks of two
\* screens differ in the projection.
C12_Witness ==
    /\ last.op = "update"
    /\ pc = "run"
    /\ layers[0].tex_angle = 45 /\ layers[1].tex_angle = 0
    /\ layers[0].view = 5 /\ layers[1].view = 8
    /\ LET P == Only(cmds, {"record_push"})
       IN  /\ Len(P) = 6
           /\ P[1].par[5].tex_angle = 45 /\ P[2].par[5].tex_angle = 0
           /\ P[1].par[5].view = 5 /\ P[2].par[5].view = 8
           /\ P[3].par[5].tex_angle = 45
           /\ P[1].par[5].projection = 11 /\ P[3].par[5].projection = 12

\* C13: after every update(), every layer below layer_count, visible or
\* not, is prepared (pipeline, texture and sampler created, is_blank
\* false) and its texture uploaded (is_texture_dirty false).
C13_EveryLayerPrepared ==
    last.op = "update"
    => \A l \in 0 .. layer_count - 1 :
          /\ ~layers[l].is_blank
          /\ ~layers[l].is_texture_dirty
          /\ gpu[l].graphics = 1 /\ gpu[l].tex = 1 /\ gpu[l].sampler = 1

\* The same for the updates that complete: the only states that break the
\* property above are those where update() aborted.
EveryLayerPreparedWhenCompleted ==
    (last.op = "update" /\ pc = "run")
    => \A l \in 0 .. layer_count - 1 :
          /\ ~layers[l].is_blank
          /\ ~layers[l].is_texture_dirty
          /\ gpu[l].graphics = 1 /\ gpu[l].tex = 1 /\ gpu[l].sampler = 1

\* The commands that create a pipeline, a texture or a sampler.
CreateCmdNames == {"create_graphics", "create_tex", "create_sampler"}

\* C14: a setter call makes no creation request.  After update(), every
\* creation request it made is for a layer below layer_count that has
\* been prepared once, and carries the values the setters last wrote:
\* the texture has the layer's format and size, the sampler has the
\* NEAREST filter iff interpolation is NEAREST and else LINEAR, and REPEAT
\* iff is_periodic and else CLAMP-TO-BORDER; set-blend and set-mask carry
\* the layer's blend mode and mask.
C14_CreationOnlyAtPreparation ==
    /\ last.op \notin {"init", "main", "update"} => ~Has(cmds, CreateCmdNames)
    /\ last.op = "update"
       => \A k \in 1 .. Len(cmds) :
             /\ cmds[k].cmd = "create_graphics"
                => \E l \in 0 .. layer_count - 1 :
                      /\ sphere_graphics_ids[l] = cmds[k].par[1]
                      /\ gpu[l].graphics = 1
             /\ cmds[k].cmd = "create_tex"
                => \E l \in 0 .. layer_count - 1 :
                      /\ texture_ids[l] = cmds[k].par[1]
                      /\ gpu[l].tex = 1
                      /\ cmds[k].par[3] = layers[l].format
                      /\ cmds[k].par[4] = layers[l].tex_width
                      /\ cmds[k].par[5] = layers[l].tex_height
             /\ cmds[k].cmd = "create_sampler"
                => \E l \in 0 .. layer_count - 1 :
                      /\ sampler_ids[l] = cmds[k].par[1]
                      /\ gpu[l].sampler = 1
                      /\ (cmds[k].par[2] = "DVZ_FILTER_NEAREST"
                            <=> layers[l].interpolation
                                   = DSTIM_INTERPOLATION_NEAREST)
                      /\ cmds[k].par[2] \in
                            {"DVZ_FILTER_NEAREST", "DVZ_FILTER_LINEAR"}
                      /\ (cmds[k].par[3] = "DVZ_SAMPLER_ADDRESS_MODE_REPEAT"
                            <=> layers[l].is_periodic)
                      /\ cmds[k].par[3] \in
                            {"DVZ_SAMPLER_ADDRESS_MODE_REPEAT",
                             "DVZ_SAMPLER_ADDRESS_MODE_CLAMP_TO_BORDER"}
             /\ cmds[k].cmd = "set_blend"
                => \E l \in 0 .. layer_count - 1 :
                      /\ sphere_graphics_ids[l] = cmds[k].par[1]
                      /\ (cmds[k].par[2] = "DVZ_BLEND_DESTINATION"
                            <=> layers[l].blend = DSTIM_BLEND_DST)
             /\ cmds[k].cmd = "set_mask"
                => \E l \in 0 .. layer_count - 1 :
                      /\ sphere_graphics_ids[l] = cmds[k].par[1]
                      /\ cmds[k].par[2] = layers[l].mask

\* C14, its case: on the scene of main(), where layer 1 was made periodic
\* with the LINEAR filter, one more call makes it non-periodic before the
\* first update(): that update() creates its sampler with CLAMP-TO-BORDER.
C14_Witness ==
    /\ last.op = "update"
    /\ pc = "run"
    /\ ncalls = 1
    /\ ~layers[1].is_periodic
    /\ \E k \in 1 .. Len(cmds) :
          cmds[k] = Cmd("create_sampler",
                        <<sampler_ids[1], "DVZ_FILTER_LINEAR",
                          "DVZ_SAMPLER_ADDRESS_MODE_CLAMP_TO_BORDER">>)

\* C15: once a layer is no longer blank, no step changes its pipeline,
\* texture or sampler object, nor the texture allocation, filter, address
\* mode, blend or mask the collaborator holds for it, and no command of a
\* later update() creates a texture or sampler for it or sets the blend
\* or mask of its pipeline, whatever the setters wrote in between.
C15_FixedStateStays ==
    [][\A l \in ValidLayers :
          ~layers[l].is_blank
          => /\ sphere_graphics_ids'[l] = sphere_graphics_ids[l]
             /\ texture_ids'[l] = texture_ids[l]
             /\ sampler_ids'[l] = sampler_ids[l]
             /\ gpu'[l] = gpu[l]
             /\ \A k \in 1 .. Len(cmds') :
                   /\ cmds'[k].cmd \in {"set_blend", "set_mask", "bind_tex"}
                         => cmds'[k].par[1] # sphere_graphics_ids[l]
                   /\ (last'.op = "update" /\ cmds'[k].cmd = "create_tex")
                         => cmds'[k].par[1] # texture_ids'[l]
                   /\ (last'.op = "update" /\ cmds'[k].cmd = "create_sampler")
                         => cmds'[k].par[1] # sampler_ids'[l]]_vars

\* C15, its case: on the scene of main(), after a first update(), a 2x1
\* texture and the NEAREST filter are set for layer 0, whose texture is
\* 1x1 with the LINEAR filter; the next update() uploads the new bytes,
\* creates nothing, and the collaborator still holds the 1x1 allocation
\* and the LINEAR filter.
C15_Witness ==
    /\ last.op = "update"
    /\ pc = "run"
    /\ layers[0].tex_width = 2
    /\ layers[0].interpolation = DSTIM_INTERPOLATION_NEAREST
    /\ gpu[0].width = 1 /\ gpu[0].tex = 1 /\ gpu[0].sampler = 1
    /\ gpu[0].filter = "DVZ_FILTER_LINEAR"
    /\ ~layers[0].is_texture_dirty
    /\ ~Has(cmds, CreateCmdNames \cup {"set_blend", "set_mask"})
    /\ \E k \in 1 .. Len(cmds) :
          /\ cmds[k].cmd = "upload_tex"
          /\ cmds[k].par[1] = texture_ids[0]
          /\ cmds[k].par[2] = 2

\* The buffers the layers own.
OwnedBuffers == {layers[l].rgba : l \in {m \in ValidLayers :
                                            layers[m].rgba # NULL}}

\* C16: while the scene is alive, every owned buffer belongs to a layer
\* below layer_count, is live, is no buffer of the caller, holds the
\* first tex_nbytes bytes the caller passed, and belongs to one layer only;
\* the live blocks are exactly the owned buffers, one per owning layer;
\* after cleanup() no block is live.
C16_BufferOwnership ==
    /\ pc # "closed"
       => /\ \A l \in ValidLayers :
                layers[l].rgba # NULL
                => /\ l < layer_count
                   /\ layers[l].rgba \in DOMAIN heap
                   /\ layers[l].rgba \notin DOMAIN CallerMem
                   /\ passed[l].tex_nbytes = layers[l].tex_nbytes
                   /\ heap[layers[l].rgba] = passed[l].bytes
                   /\ Len(heap[layers[l].rgba]) = layers[l].tex_nbytes
          /\ \A l, m \in ValidLayers :
                (l # m /\ layers[l].rgba # NULL)
                => layers[l].rgba # layers[m].rgba
          /\ DOMAIN heap = OwnedBuffers
    /\ pc = "closed" => DOMAIN heap = {}

\* C16, its case: cleanup() after the texture of layer 0 was set twice
\* and that of layer 1 once on the scene of main(): nothing is live.
C16_Witness ==
    /\ last.op = "cleanup"
    /\ pc = "closed"
    /\ layers[0].rgba # NULL /\ layers[1].rgba # NULL
    /\ layers[0].tex_width = 2
    /\ DOMAIN heap = {}

\* The fraction f is c / 255; the fraction f rounds to m / 10000.
IsOver255(f, c) == f[2] > 0 /\ f[1] * 255 = c * f[2]

RoundsTo(f, m) ==
    /\ 2 * (f[1] * 10000 - m * f[2]) <= f[2]
    /\ 2 * (m * f[2] - f[1] * 10000) <= f[2]

\* C17: in every push block an update() records for a layer, each
\* min_color / max_color channel is the layer's stored channel c divided
\* by 255; a stored 0 is sent as 0.0 and a stored 255 as 1.0, so that
\* (0, 255, 255, 255) is sent as (0.0, 1.0, 1.0, 1.0).
C17_ColorsOver255 ==
    last.op = "update"
    => \A k \in 1 .. Len(cmds) :
          cmds[k].cmd = "record_push"
          => \A l \in ValidLayers :
                cmds[k].par[2] = sphere_graphics_ids[l]
                => /\ \A c \in 1 .. 4 :
                         /\ IsOver255(cmds[k].par[5].min_color[c],
                                      layers[l].min_color[c])
                         /\ IsOver255(cmds[k].par[5].max_color[c],
                                      layers[l].max_color[c])
                         /\ layers[l].min_color[c] = 0
                               => cmds[k].par[5].min_color[c] = <<0, 1>>
                         /\ layers[l].min_color[c] = 255
                               => cmds[k].par[5].min_color[c] = <<1, 1>>
                         /\ layers[l].max_color[c] = 0
                               => cmds[k].par[5].max_color[c] = <<0, 1>>
                         /\ layers[l].max_color[c] = 255
                               => cmds[k].par[5].max_color[c] = <<1, 1>>
                   /\ layers[l].min_color = <<0, 255, 255, 255>>
                         => cmds[k].par[5].min_color
                               = << <<0, 1>>, <<1, 1>>, <<1, 1>>, <<1, 1>> >>

\* C17, its case: dstim_layer_min_color(stim, 0, 0, 255, 255, 255) and
\* dstim_layer_max_color(stim, 0, 51, 102, 204, 255) on the scene of
\* main(), then update(): the push block of layer 0 holds
\* (0.0, 1.0, 1.0, 1.0) and (0.2, 0.4, 0.8, 1.0).
C17_Witness ==
    /\ last.op = "update"
    /\ layers[0].min_color = <<0, 255, 255, 255>>
    /\ layers[0].max_color = <<51, 102, 204, 255>>
    /\ \E k \in 1 .. Len(cmds) :
          /\ cmds[k].cmd = "record_push"
          /\ cmds[k].par[2] = sphere_graphics_ids[0]
          /\ cmds[k].par[5].min_color
                = << <<0, 1>>, <<1, 1>>, <<1, 1>>, <<1, 1>> >>
          /\ cmds[k].par[5].max_color
                = << <<1, 5>>, <<2, 5>>, <<4, 5>>, <<1, 1>> >>

\* The six vertices of the rectangle of origin (x, y) and size (w, h),
\* given as fractions, in the order of the vertex buffer.
RectangleVertices(x, y, w, h) ==
    << <<x, y>>, <<FracAdd(x, w), y>>, <<x, FracAdd(y, h)>>,
       <<FracAdd(x, w), FracAdd(y, h)>>, <<x, FracAdd(y, h)>>,
       <<FracAdd(x, w), y>> >>

\* C18: dstim_square_pos(x, y, w, h) on a W x H canvas uploads to the
\* square's vertex buffer the rectangle of origin (2x/W - 1, 2y/H - 1)
\* and size (2w/W, 2h/H); (860, 300, 100, 100) on 960 x 400 gives the
\* origin (0.7917, 0.5) and the size (0.2083, 0.5).
C18_SquarePosInNDC ==
    last.op = "square_pos"
    => \E r \in SquareRects :
          LET ox == Frac(2 * r[1] - width, width)
              oy == Frac(2 * r[2] - height, height)
              sw == Frac(2 * r[3], width)
              sh == Frac(2 * r[4], height)
          IN  /\ cmds = << Cmd("upload_dat",
                               <<reg.square_vertex_id, 0,
                                 SQUARE_VERTEX_COUNT * SIZEOF_DStimSquareVertex,
                                 RectangleVertices(ox, oy, sw, sh)>>) >>
              /\ (r = <<860, 300, 100, 100>> /\ width = 960 /\ height = 400)
                 => /\ RoundsTo(cmds[1].par[4][1][1], 7917)
                    /\ cmds[1].par[4][1][2] = <<1, 2>>
                    /\ RoundsTo(FracAdd(cmds[1].par[4][4][1],
                                        <<-cmds[1].par[4][1][1][1],
                                          cmds[1].par[4][1][1][2]>>), 2083)
                    /\ FracAdd(cmds[1].par[4][4][2],
                               <<-cmds[1].par[4][1][2][1],
                                 cmds[1].par[4][1][2][2]>>) = <<1, 2>>

\* C18, its case: dstim_square_pos(stim, 860, 300, 100, 100) on the
\* 960 x 400 canvas: the first vertex is (19/24, 1/2) and the opposite one
\* (1, 1).
C18_Witness ==
    /\ last.op = "square_pos"
    /\ width = 960 /\ height = 400
    /\ Len(cmds) = 1
    /\ cmds[1].cmd = "upload_dat"
    /\ cmds[1].par[1] = reg.square_vertex_id
    /\ cmds[1].par[4][1] = << <<19, 24>>, <<1, 2>> >>
    /\ cmds[1].par[4][4] = << <<1, 1>>, <<1, 1>> >>

\* The positions of the commands of the current call that create an
\* object.
Creations ==
    {j \in 1 .. Len(cmds) :
        cmds[j].cmd \in {"create_graphics", "create_tex", "create_sampler",
                         "create_dat"}}

\* The object id is one the collaborator has returned, and if it was
\* returned during the current call (at one of the positions C), that was
\* before command k.
CreatedBefore(C, id, k) ==
    /\ id # DVZ_ID_NONE
    /\ id < next_id
    /\ \A j \in C : cmds[j].par[1] = id => j < k

\* The positions of the viewport commands of the current call.
Viewports == {k \in 1 .. Len(cmds) : cmds[k].cmd = "record_viewport"}

\* The position of the first per-screen command of the current call: the
\* first push or indexed draw, or the second viewport command, whichever
\* comes first (past the end if there is none).
FirstPerScreen ==
    LET per == {j \in 1 .. Len(cmds) :
                   \/ cmds[j].cmd \in {"record_push", "record_draw_indexed"}
                   \/ /\ cmds[j].cmd = "record_viewport"
                      /\ \E i \in 1 .. j - 1 : cmds[i].cmd = "record_viewport"}
    IN  IF per = {} THEN Len(cmds) + 1
        ELSE CHOOSE j \in per : \A i \in per : j <= i

\* C19: in the commands of one update(), every command of the
\* preparation pass and every texture upload comes before the first
\* per-screen viewport (the second viewport command) and before every
\* push and indexed draw; every push and indexed draw names the pipeline
\* of a layer whose pipeline, texture and sampler were created before it;
\* every upload names a layer's texture created before it; every id a
\* command names for a pipeline, texture or sampler was created before
\* the command.
C19_PreparedBeforeDrawn ==
    last.op = "update"
    => LET C == Creations
           first == FirstPerScreen
       IN
       \A k \in 1 .. Len(cmds) :
          /\ cmds[k].cmd \in PrepareCmdNames \cup {"upload_tex"}
             => k < first
          /\ cmds[k].cmd \in {"record_push", "record_draw_indexed"}
             => \E l \in 0 .. layer_count - 1 :
                   /\ cmds[k].par[2] = sphere_graphics_ids[l]
                   /\ gpu[l].graphics = 1 /\ gpu[l].tex = 1
                   /\ gpu[l].sampler = 1
                   /\ CreatedBefore(C, sphere_graphics_ids[l], k)
                   /\ CreatedBefore(C, texture_ids[l], k)
                   /\ CreatedBefore(C, sampler_ids[l], k)
          /\ cmds[k].cmd = "upload_tex"
             => \E l \in 0 .. layer_count - 1 :
                   /\ cmds[k].par[1] = texture_ids[l]
                   /\ gpu[l].tex = 1
                   /\ CreatedBefore(C, texture_ids[l], k)
          /\ cmds[k].cmd = "bind_tex"
             => /\ CreatedBefore(C, cmds[k].par[1], k)
                /\ CreatedBefore(C, cmds[k].par[3], k)
                /\ CreatedBefore(C, cmds[k].par[4], k)
          /\ cmds[k].cmd \in {"set_blend", "set_mask", "bind_vertex",
                              "bind_index", "set_shader", "set_primitive",
                              "set_front", "set_polygon", "set_vertex",
                              "set_attr", "set_slot", "set_push"}
             => CreatedBefore(C, cmds[k].par[1], k)
          /\ cmds[k].cmd = "record_draw"
             => CreatedBefore(C, cmds[k].par[2], k)

\* C19, its case: the first update() on the scene of main(): both layers
\* are created and uploaded, then drawn on the three screens.
C19_Witness ==
    /\ last.op = "update"
    /\ pc = "run"
    /\ Len(Only(cmds, {"create_tex"})) = 2
    /\ Len(Only(cmds, {"upload_tex"})) = 2
    /\ Len(Only(cmds, {"record_draw_indexed"})) = 2 * screen_count
    /\ screen_count = 3
    /\ \E k \in 1 .. Len(cmds) :
          /\ cmds[k].cmd = "record_push"
          /\ cmds[k].par[2] = sphere_graphics_ids[1]
          /\ \E j \in 1 .. k - 1 :
                /\ cmds[j].cmd = "create_graphics"
                /\ cmds[j].par[1] = sphere_graphics_ids[1]

\* The last viewport command before command k (0 if there is none).
ViewportBefore(k) ==
    IF \E j \in Viewports : j < k
    THEN CHOOSE j \in Viewports : j < k /\ \A i \in Viewports : i < k => i <= j
    ELSE 0

FullViewport == <<reg.canvas_id, 0, 0, width, height>>

ScreenViewport(s) ==
    <<reg.canvas_id, screens[s].offset[1], screens[s].offset[2],
      screens[s].size[1], screens[s].size[2]>>

\* The viewport commands of a call are scoped as documented.
ViewportsScoped ==
    /\ Cardinality(Viewports) = screen_count + 2
    /\ \A k \in 1 .. Len(cmds) :
          /\ cmds[k].cmd = "record_draw"
             => /\ ViewportBefore(k) # 0
                /\ cmds[ViewportBefore(k)].par = FullViewport
                /\ ViewportBefore(k) = k - 1
          /\ cmds[k].cmd = "record_draw_indexed"
             => /\ ViewportBefore(k) # 0
                /\ LET n == Cardinality({j \in Viewports : j < k})
                   IN  /\ n \in 2 .. screen_count + 1
                       /\ cmds[ViewportBefore(k)].par = ScreenViewport(n - 2)
                       /\ cmds[k - 1].cmd = "record_push"
                       /\ cmds[k - 1].par[5].projection
                             = screens[n - 2].projection
    /\ \A s \in 0 .. screen_count - 1 :
          \E k \in Viewports :
             /\ Cardinality({j \in Viewports : j < k}) = s + 1
             /\ cmds[k].par = ScreenViewport(s)

\* C20: each update() records exactly screen_count + 2 viewport
\* commands; the last viewport before each layer draw is that of the
\* screen the draw is for, and the last viewport before the background
\* draw and before the square draw is the full window.
C20_ViewportScoping ==
    last.op = "update" => ViewportsScoped

\* The same for the updates that complete: the only states that break the
\* property above are those where update() aborted.
ViewportScopingWhenCompleted ==
    (last.op = "update" /\ pc = "run") => ViewportsScoped

\* The layers below layer_count that are visible.
VisibleLayers == {l \in 0 .. layer_count - 1 : layers[l].is_visible}

\* One push directly followed by one indexed draw per (screen, visible
\* layer) pair, and none for a layer that is not visible.
PairsDrawn ==
    LET P == {k \in 1 .. Len(cmds) : cmds[k].cmd = "record_push"}
        D == {k \in 1 .. Len(cmds) : cmds[k].cmd = "record_draw_indexed"}
    IN  /\ Cardinality(P) = screen_count * Cardinality(VisibleLayers)
        /\ D = {k + 1 : k \in P}
        /\ \A k \in P : cmds[k + 1].par[2] = cmds[k].par[2]
        /\ Only(cmds, {"record_push"})
              = [j \in 1 .. Len(DrawnPairs(Cur)) |->
                   Cmd("record_push",
                       <<reg.canvas_id,
                         sphere_graphics_ids[DrawnPairs(Cur)[j][2]], 0,
                         SIZEOF_DStimPush,
                         PushOf(Cur, DrawnPairs(Cur)[j][1],
                                DrawnPairs(Cur)[j][2])>>)]
        /\ \A k \in P \cup D :
              \A l \in ValidLayers :
                 cmds[k].par[2] = sphere_graphics_ids[l]
                 => l \in VisibleLayers

\* C21: each update() records exactly one push-constant command directly
\* followed by one indexed draw for every pair of a screen below
\* screen_count and a visible layer below layer_count, screen_count times
\* the number of visible layers in all, and none for a layer that is not
\* visible.
C21_OnePushAndDrawPerPair ==
    last.op = "update" => PairsDrawn

\* The same for the updates that complete: the only states that break the
\* property above are those where update() aborted.
PairsDrawnWhenCompleted ==
    (last.op = "update" /\ pc = "run") => PairsDrawn

\* Exactly one background draw, the first draw, and exactly one square
\* draw, the last; without screens no layer draw, with every layer below
\* layer_count prepared and uploaded all the same.
BackgroundAndSquareDrawn ==
    LET D == Only(cmds, {"record_draw", "record_draw_indexed"})
    IN  /\ Len(D) >= 2
        /\ D[1] = Cmd("record_draw",
                      <<reg.canvas_id, reg.background_graphics_id, 0,
                        SQUARE_VERTEX_COUNT, 0, 1>>)
        /\ D[Len(D)] = Cmd("record_draw",
                           <<reg.canvas_id, reg.square_graphics_id, 0,
                             SQUARE_VERTEX_COUNT, 0, 1>>)
        /\ Len(Only(cmds, {"record_draw"})) = 2
        /\ screen_count = 0
           => /\ ~Has(cmds, {"record_draw_indexed", "record_push"})
              /\ \A l \in 0 .. layer_count - 1 :
                    /\ ~layers[l].is_blank
                    /\ ~layers[l].is_texture_dirty
                    /\ gpu[l].graphics = 1 /\ gpu[l].tex = 1

\* C22: every update() records exactly one background draw, the first
\* draw of the frame, and exactly one square draw, the last, whatever the
\* screens and layers; with screen_count = 0 it records no layer draw but
\* still prepares and uploads every layer below layer_count.
C22_BackgroundAndSquareAlways ==
    last.op = "update" => BackgroundAndSquareDrawn

\* The same for the updates that complete.
BackgroundAndSquareWhenCompleted ==
    (last.op = "update" /\ pc = "run") => BackgroundAndSquareDrawn

\* The commands of the current call that are about layer l: those that
\* name its pipeline, its texture or its sampler.
LayerCmds(l) ==
    SelectSeq(cmds, LAMBDA c :
        \/ /\ c.cmd \in {"create_graphics", "bind_vertex", "bind_index",
                         "bind_tex", "set_blend", "set_mask"}
           /\ c.par[1] = sphere_graphics_ids[l]
        \/ /\ c.cmd \in {"create_tex", "upload_tex"}
           /\ c.par[1] = texture_ids[l]
        \/ /\ c.cmd = "create_sampler"
           /\ c.par[1] = sampler_ids[l])

\* The order of the commands that prepare a layer, then its upload.
PreparationOrder ==
    <<"create_graphics", "bind_vertex", "bind_index", "create_tex",
      "create_sampler", "bind_tex", "set_blend", "set_mask", "upload_tex">>

\* C23: in an update() that prepares layer l, the commands about l are, in
\* this order: create pipeline, bind the shared sphere vertex buffer, bind
\* the shared sphere index buffer, create texture, create sampler, bind
\* texture and sampler to slot 0 of the pipeline, set blend, set mask, and
\* after all of these the upload of its texture, if one is pending.  An
\* update() that completes emits all of the first eight.
C23_PreparationOrder ==
    last.op = "update"
    => \A l \in 0 .. layer_count - 1 :
          (\E k \in 1 .. Len(cmds) :
              /\ cmds[k].cmd = "create_graphics"
              /\ cmds[k].par[1] = sphere_graphics_ids[l])
          => LET L == LayerCmds(l)
             IN  /\ Len(L) <= 9
                 /\ \A j \in 1 .. Len(L) : L[j].cmd = PreparationOrder[j]
                 /\ pc = "run" => Len(L) >= 8
                 /\ Len(L) >= 2 => L[2].par[3] = reg.sphere_vertex_id
                 /\ Len(L) >= 3 => L[3].par[2] = reg.sphere_index_id
                 /\ Len(L) >= 6
                    => L[6].par = <<sphere_graphics_ids[l], 0, texture_ids[l],
                                    sampler_ids[l]>>

\* C23, its case: an update() that prepares layer 1, whose texture is
\* pending: nine commands about it, the upload last.
C23_Witness ==
    /\ last.op = "update"
    /\ pc = "run"
    /\ Len(LayerCmds(1)) = 9
    /\ LayerCmds(1)[4].cmd = "create_tex"
    /\ LayerCmds(1)[8].cmd = "set_mask"
    /\ LayerCmds(1)[9].cmd = "upload_tex"
    /\ LayerCmds(1)[9].par[1] = texture_ids[1]

\* The layers below layer_count that are blank and were never given a
\* texture.
BlankUntextured ==
    {k \in 0 .. layer_count - 1 :
        /\ layers[k].is_blank
        /\ layers[k].tex_width = 0 /\ layers[k].tex_height = 0
        /\ layers[k].rgba = NULL}

\* C25: update() aborts exactly when a layer below layer_count is blank and
\* was never given a texture (width and height 0): it then has recorded
\* begin-recording, the full-window viewport and the background draw, has
\* stopped at the texture of that layer, and has recorded no per-screen
\* viewport, push, indexed draw, end-recording or submit.  An update() that
\* completes leaves every layer below layer_count with a texture set.
C25_AbortsOnUntexturedLayer ==
    last.op = "update"
    => /\ pc = "aborted" <=> BlankUntextured # {}
       /\ pc = "aborted"
          => /\ Len(cmds) >= 3
             /\ cmds[1].cmd = "record_begin"
             /\ Cardinality(Viewports) = 1
             /\ ~Has(cmds, {"record_push", "record_draw_indexed",
                            "record_end", "submit"})
             /\ LET k == CHOOSE k \in BlankUntextured :
                            \A j \in BlankUntextured : k <= j
                IN  /\ cmds[Len(cmds)].cmd = "bind_index"
                    /\ cmds[Len(cmds)].par[1] = sphere_graphics_ids[k]
                    /\ texture_ids[k] = DVZ_ID_NONE
                    /\ \A j \in 0 .. k - 1 : ~layers[j].is_blank
       /\ pc = "run"
          => \A l \in 0 .. layer_count - 1 :
                /\ layers[l].rgba # NULL
                /\ layers[l].tex_width > 0 /\ layers[l].tex_height > 0
                /\ gpu[l].width > 0 /\ gpu[l].height > 0

\* C25, its case: layer 1 has a texture and layer 0 exists only because
\* layer 1 does: update() prepares neither and aborts on layer 0.
C25_Witness ==
    /\ last.op = "update"
    /\ pc = "aborted"
    /\ layer_count = 2
    /\ layers[1].rgba # NULL
    /\ layers[1].is_blank /\ layers[1].is_texture_dirty
    /\ BlankUntextured = {0}
    /\ Has(cmds, {"create_graphics"})
    /\ ~Has(cmds, {"create_tex", "submit"})

\* C26: a texture-setter call on a layer that is already prepared is
\* accepted without error whatever the new size, creates nothing and
\* leaves the texture pending; the next update() records for that layer
\* one upload of the new width, height, byte length and bytes to the
\* texture object created at preparation, whose allocation stays the one
\* made then, and creates no texture.
C26_SizeChangeUploadedAsIs ==
    [][/\ (/\ last'.op = "layer_texture"
           /\ last'.idx < DSTIM_MAX_LAYERS
           /\ ~layers[last'.idx].is_blank)
          => /\ ~last'.err
             /\ pc' = "run"
             /\ cmds' = << >>
             /\ gpu' = gpu
             /\ texture_ids' = texture_ids
             /\ layers'[last'.idx].is_texture_dirty
             /\ ~layers'[last'.idx].is_blank
       /\ last'.op = "update"
          => \A l \in 0 .. layer_count - 1 :
                (~layers[l].is_blank /\ layers[l].is_texture_dirty)
                => /\ gpu'[l] = gpu[l]
                   /\ texture_ids'[l] = texture_ids[l]
                   /\ UploadsOf(cmds', texture_ids[l]) = 1
                   /\ \E k \in 1 .. Len(cmds') :
                         cmds'[k] = Cmd("upload_tex",
                                        <<texture_ids[l],
                                          layers[l].tex_width,
                                          layers[l].tex_height,
                                          layers[l].tex_nbytes,
                                          heap[layers[l].rgba]>>)
                   /\ \A k \in 1 .. Len(cmds') :
                         cmds'[k].cmd = "create_tex"
                         => cmds'[k].par[1] # texture_ids[l]]_vars

\* C26, its case: layer 0 was prepared with a 1x1 texture of 4 bytes, then
\* given a 2x1 texture of 8 bytes: update() has uploaded 2x1, 8 bytes, to
\* the texture allocated as 1x1.
C26_Witness ==
    /\ last.op = "update"
    /\ ~last.err
    /\ pc = "run"
    /\ gpu[0].width = 1 /\ gpu[0].height = 1 /\ gpu[0].tex = 1
    /\ layers[0].tex_width = 2 /\ layers[0].tex_height = 1
    /\ layers[0].tex_nbytes = 8
    /\ \E k \in 1 .. Len(cmds) :
          /\ cmds[k].cmd = "upload_tex"
          /\ cmds[k].par[1] = texture_ids[0]
          /\ cmds[k].par[2] = 2 /\ cmds[k].par[3] = 1 /\ cmds[k].par[4] = 8
          /\ Len(cmds[k].par[5]) = 8
    /\ ~Has(cmds, {"create_tex"})

C28_LayerSlots ==
    /\ (last.op = "update" /\ pc = "run")
       => \A l \in 0 .. layer_count - 1 :
             ~layers[l].is_blank /\ ~layers[l].is_texture_dirty
    /\ \A l \in layer_count .. DSTIM_MAX_LAYERS - 1 :
          /\ layers[l].is_blank
          /\ ~layers[l].is_texture_dirty
          /\ ~layers[l].is_visible
          /\ layers[l].rgba = NULL

\* C28, its case: a completed update() with two layers: both prepared and
\* uploaded, the third slot untouched.
C28_Witness ==
    /\ last.op = "update"
    /\ pc = "run"
    /\ layer_count = 2
    /\ ~layers[0].is_blank /\ ~layers[1].is_blank
    /\ ~layers[0].is_texture_dirty /\ ~layers[1].is_texture_dirty
    /\ layers[2].is_blank /\ layers[2].rgba = NULL

\* The frame of a scene without screens and layers.
EmptyFrame ==
    << Cmd("record_begin", <<reg.canvas_id>>),
       Cmd("record_viewport", <<reg.canvas_id, 0, 0, width, height>>),
       Cmd("record_draw",
           <<reg.canvas_id, reg.background_graphics_id, 0,
             SQUARE_VERTEX_COUNT, 0, 1>>),
       Cmd("record_viewport", <<reg.canvas_id, 0, 0, width, height>>),
       Cmd("record_draw",
           <<reg.canvas_id, reg.square_graphics_id, 0,
             SQUARE_VERTEX_COUNT, 0, 1>>),
       Cmd("record_end", <<reg.canvas_id>>),
       Cmd("submit", << >>) >>

\* C29: right after a successful dstim_init, screen_count and layer_count
\* are 0 and each of the 16 layer slots is blank, not visible, not dirty,
\* has no texture pending and owns no buffer; an update() called before
\* any other call records the background draw and the square draw, each
\* in the full-window viewport, and nothing else between begin and end.
C29_AfterInit ==
    /\ (last.op = "init" /\ pc = "run")
       => /\ screen_count = 0
          /\ layer_count = 0
          /\ DOMAIN layers = 0 .. 15
          /\ \A l \in DOMAIN layers :
                /\ layers[l].is_blank
                /\ ~layers[l].is_visible
                /\ ~layers[l].is_dirty
                /\ ~layers[l].is_texture_dirty
                /\ layers[l].rgba = NULL
          /\ DOMAIN heap = {}
    /\ (last.op = "update" /\ ncalls = 0)
       => /\ pc = "run"
          /\ cmds = EmptyFrame

\* C29, its case: update() as the first call after dstim_init(960, 400).
C29_Witness ==
    /\ last.op = "update"
    /\ ncalls = 0
    /\ screen_count = 0 /\ layer_count = 0
    /\ Len(cmds) = 7
    /\ Len(Only(cmds, {"record_draw"})) = 2

\* C30: dstim_init returns no scene exactly when width = 0 or height = 0;
\* it has then reported an error, made no request (no app, no batch, no
\* object), taken no id and allocated nothing.
C30_InitRejectsZeroSize ==
    /\ last.op = "init"
       => ((width = 0 \/ height = 0) <=> pc = "no_scene")
    /\ pc = "no_scene"
       => /\ last = [op |-> "init", idx |-> 0, err |-> TRUE]
          /\ cmds = << >>
          /\ next_id = 1
          /\ DOMAIN heap = {}
          /\ reg.canvas_id = DVZ_ID_NONE
          /\ layer_count = 0 /\ screen_count = 0
    /\ (last.op = "init" /\ pc = "run")
       => /\ ~last.err
          /\ cmds[1].cmd = "app"
          /\ reg.canvas_id # DVZ_ID_NONE

\* C30, its case: dstim_init(960, 0).
C30_Witness ==
    /\ pc = "no_scene"
    /\ width = DSTIM_DEFAULT_WIDTH
    /\ height = 0
    /\ last.err
    /\ cmds = << >>

\* C24: every texture upload recorded by update() carries, for its layer,
\* the width, height, byte length and bytes that the most recent accepted
\* texture-setter call on that layer received, the bytes as they were
\* during that call; and in every state the copy a layer holds is equal to
\* those bytes, whatever the caller has since written to its buffer or
\* whether it has freed it.
C24_UploadsWhatWasPassed ==
    /\ last.op = "update"
       => \A k \in 1 .. Len(cmds) :
             cmds[k].cmd = "upload_tex"
             => \E l \in 0 .. layer_count - 1 :
                   /\ cmds[k].par[1] = texture_ids[l]
                   /\ cmds[k].par[2] = passed[l].width
                   /\ cmds[k].par[3] = passed[l].height
                   /\ cmds[k].par[4] = passed[l].tex_nbytes
                   /\ cmds[k].par[5] = passed[l].bytes
                   /\ Len(cmds[k].par[5]) = passed[l].tex_nbytes
    /\ pc # "closed"
       => \A l \in ValidLayers :
             IF layers[l].rgba = NULL THEN passed[l] = NothingPassed
             ELSE /\ heap[layers[l].rgba] = passed[l].bytes
                  /\ layers[l].tex_width = passed[l].width
                  /\ layers[l].tex_height = passed[l].height
                  /\ layers[l].tex_nbytes = passed[l].tex_nbytes
                  /\ layers[l].format = passed[l].format

\* C24, its case: the 2x1 texture is set on layer 0 from the caller's
\* buffer 102, the caller then writes over that buffer or frees it, and
\* update() uploads the eight bytes the buffer held during the call.
C24_Witness ==
    /\ last.op = "update"
    /\ pc = "run"
    /\ caller[102] # CallerMem[102]
    /\ \E k \in 1 .. Len(cmds) :
          /\ cmds[k].cmd = "upload_tex"
          /\ cmds[k].par[1] = texture_ids[0]
          /\ cmds[k].par[2] = 2
          /\ cmds[k].par[5] = <<1, 2, 3, 4, 5, 6, 7, 8>>

\* ---- C31 ----
\* The origin of the square dstim_init places: the first vertex of the
\* rectangle uploaded to the square's vertex buffer.  A pixel x lies in
\* [0, width) exactly when 2x / width - 1 lies in [-1, 1).
InNDC(f) == -f[2] <= f[1] /\ f[1] < f[2]

DefaultSquareInCanvas ==
    \A k \in 1 .. Len(cmds) :
       (cmds[k].cmd = "upload_dat" /\ cmds[k].par[1] = reg.square_vertex_id)
       => /\ InNDC(cmds[k].par[4][1][1])
          /\ InNDC(cmds[k].par[4][1][2])

\* C31: for every width >= 1 and height >= 1 that dstim_init accepts, the
\* default origin of the indicator square, (width - 100, height - 100) in
\* unsigned 32-bit arithmetic, does not wrap around: the square starts at
\* x in [0, width) and y in [0, height).
C31_DefaultSquareInCanvas ==
    (last.op = "init" /\ pc = "run" /\ width >= 1 /\ height >= 1)
    => DefaultSquareInCanvas

\* What holds instead: the square starts inside the canvas when neither
\* side of the canvas is shorter than the square's.
DefaultSquareInLargeCanvas ==
    (last.op = "init" /\ pc = "run"
       /\ width >= DSTIM_DEFAULT_SQUARE_WIDTH
       /\ height >= DSTIM_DEFAULT_SQUARE_HEIGHT)
    => DefaultSquareInCanvas

\* ---- C32 ----
\* The fields of a layer each layer setter names.
NamedFields(op) ==
    CASE op = "layer_texture" ->
            {"format", "tex_width", "tex_height", "tex_nbytes", "rgba"}
      [] op = "layer_interpolation" -> {"interpolation"}
      [] op = "layer_periodic" -> {"is_periodic"}
      [] op = "layer_blend" -> {"blend"}
      [] op = "layer_mask" -> {"mask"}
      [] op = "layer_view" -> {"view"}
      [] op = "layer_angle" -> {"tex_angle"}
      [] op = "layer_offset" -> {"tex_offset"}
      [] op = "layer_size" -> {"tex_size"}
      [] op = "layer_min_color" -> {"min_color"}
      [] op = "layer_max_color" -> {"max_color"}
      [] op = "layer_show" -> {"is_visible"}

DirtyFlags == {"is_dirty", "is_texture_dirty"}

\* C32: a layer setter called with a valid index i changes only the
\* field(s) it names and the dirty flags of layer i, plus layer_count;
\* every other layer with its flags and its buffer, the screen table and
\* screen_count, and is_blank of every layer stay as they were, and the
\* setter makes no request to the GPU.
C32_LayerSetterFrame ==
    [][(last'.op \in LayerSetters /\ ~last'.err /\ pc' = "run")
       => /\ \A f \in DOMAIN ZeroLayer \ (NamedFields(last'.op) \cup DirtyFlags) :
                layers'[last'.idx][f] = layers[last'.idx][f]
          /\ \A j \in ValidLayers \ {last'.idx} :
                /\ layers'[j] = layers[j]
                /\ layers[j].rgba # NULL
                      => heap'[layers[j].rgba] = heap[layers[j].rgba]
          /\ \A j \in ValidLayers : layers'[j].is_blank = layers[j].is_blank
          /\ layer_count' = MAX(layer_count, last'.idx + 1)
          /\ screens' = screens
          /\ screen_count' = screen_count
          /\ cmds' = << >>
          /\ gpu' = gpu
          /\ next_id' = next_id]_vars

\* C32, its case: a layer setter has just acted on layer 0 while layer 1
\* holds a texture buffer and differs from layer 0 in the field written
\* and in its flags.
C32_Witness ==
    /\ last.op = "layer_offset"
    /\ last.idx = 0
    /\ ~last.err
    /\ pc = "run"
    /\ layer_count = 2
    /\ layers[1].rgba # NULL
    /\ layers[1].is_texture_dirty
    /\ ~layers[1].is_dirty
    /\ layers[0].is_dirty
    /\ layers[0].tex_offset # layers[1].tex_offset

\* ---- C33 ----
ValidScreens == 0 .. DSTIM_MAX_SCREENS - 1

StaticSetters == {"background", "square_color", "square_pos"}

\* The buffer each setter of a static primitive uploads to.
StaticBuffer(op) ==
    CASE op = "background" -> reg.background_params_id
      [] op = "square_color" -> reg.square_params_id
      [] op = "square_pos" -> reg.square_vertex_id

StaticBuffers ==
    {reg.background_vertex_id, reg.background_params_id,
     reg.square_vertex_id, reg.square_params_id}

\* C33: dstim_screen with a valid index changes only that screen's offset
\* and size, dstim_projection only that screen's projection; both may
\* raise screen_count and leave every other screen, the layer table,
\* layer_count and the layer flags alone.  The background color, square
\* color and square position setters upload to their buffer during the
\* call, update() uploads nothing to these buffers, and they change no
\* screen and no layer.
C33_ScreenAndStaticFrame ==
    [][/\ (last'.op \in ScreenSetters /\ ~last'.err /\ pc' = "run")
          => /\ last'.op = "screen"
                   => screens'[last'.idx].projection
                         = screens[last'.idx].projection
             /\ last'.op = "projection"
                   => /\ screens'[last'.idx].offset
                            = screens[last'.idx].offset
                      /\ screens'[last'.idx].size = screens[last'.idx].size
             /\ \A s \in ValidScreens \ {last'.idx} :
                   screens'[s] = screens[s]
             /\ screen_count' = MAX(screen_count, last'.idx + 1)
             /\ layers' = layers
             /\ layer_count' = layer_count
             /\ heap' = heap
             /\ cmds' = << >>
       /\ (last'.op \in StaticSetters /\ pc' = "run")
          => /\ Len(cmds') = 1
             /\ cmds'[1].cmd = "upload_dat"
             /\ cmds'[1].par[1] = StaticBuffer(last'.op)
             /\ screens' = screens
             /\ screen_count' = screen_count
             /\ layers' = layers
             /\ layer_count' = layer_count
             /\ heap' = heap
       /\ last'.op = "update"
          => \A k \in 1 .. Len(cmds') :
                cmds'[k].cmd = "upload_dat"
                => cmds'[k].par[1] \notin StaticBuffers]_vars

\* C33, its case: dstim_screen has just placed screen 1, whose
\* projection was set before and is still in place.
C33_Witness ==
    /\ last.op = "screen"
    /\ last.idx = 1
    /\ ~last.err
    /\ pc = "run"
    /\ screens[1].offset = <<320, 0>>
    /\ screens[1].size = <<320, 400>>
    /\ screens[1].projection # 0
    /\ screen_count = 2

\* ---- C34 ----
\* A scene's tables, flags and registry, each owned buffer given by its
\* bytes, not its address.
Tables(S) ==
    [pc |-> S.pc, width |-> S.width, height |-> S.height, model |-> S.model,
     screen_count |-> S.screen_count, screens |-> S.screens,
     layer_count |-> S.layer_count,
     layers |-> [l \in ValidLayers |->
                   [S.layers[l] EXCEPT
                      !.rgba = IF @ \in DOMAIN S.heap THEN S.heap[@]
                               ELSE << >>]],
     reg |-> S.reg, sphere_graphics_ids |-> S.sphere_graphics_ids,
     texture_ids |-> S.texture_ids, sampler_ids |-> S.sampler_ids]

====
